---- MODULE Spec2Model ----
(***************************************************************************)
(* State-machine model of the apply/prune engine and the inventory        *)
(* lifecycle of cli-utils: the TaskContext outcome accumulators, the      *)
(* inventory-update task (InvSetTask), the fake inventory client, the     *)
(* ownership policy, the pruner and the unstructured inventory client.    *)
(***************************************************************************)
EXTENDS FiniteSets, Integers, Sequences, TLC

(***************************************************************************)
(* Bounds of the model.                                                    *)
(***************************************************************************)
\* number of distinct object ids (ObjMetadata) of the InvSetTask runs
NumObjs == 2
\* number of outcome registrations (Add... calls) made before InvSetTask
MaxAdds == 3

\* number of distinct inventory ids
NumIDs == 3
\* the number of operations of the inventory client in a behaviour
MaxOps == 4
\* the number of operations of two clients of one record in a behaviour
MaxSteps == 5
\* the number of objects that the two clients put into their object sets
NumSetObjs == 1

Objs == 1..NumObjs

\* inventory ids; the value of the owning-inventory annotation of an object
\* is one of them, or NoAnnotation when the object does not carry it
IDs == 1..NumIDs
NoAnnotation == 0

\* the nil error
Nil == "nil"
\* the error a test forces on the fake client with SetError
ForcedErr == "forced-error"

VARIABLES
    \* TaskContext outcome accumulators
    successfulApplies, failedApplies, skippedApplies,
    failedDeletes, skippedDeletes, abandonedObjects,
    \* TaskContext.TaskChannel(): the results sent and not yet received
    taskChannel,
    \* InvSetTask.PrevInventory
    prevInventory,
    \* position of the InvSetTask run: "setup", "started", "done"
    invSetPc,
    \* the TaskResult received from the task channel (NoTaskResult before)
    taskResult,
    \* FakeClient.Inv (its object set) and FakeClient.Err
    ficInv, ficErr,
    \* number of Add... calls made so far
    nAdds,
    \* arguments of a call of the policy functions: the inventory id, the
    \* live object and the inventory policy
    polInv, polObj, polPolicy,
    \* the policy function called last ("none" before) and what it returned
    polFn, polResult,
    \* the resource store: the live object of every object id
    cluster,
    \* options of a run: the inventory policy, the dry-run strategy and the
    \* prune filters, in declaration order
    invPolicy, dryRunStrategy, pruneFilters,
    \* the object ids the caller wants applied
    desired,
    \* position of the run: "idle", "apply", "getprune", "prune", "done"
    runPc,
    \* ids still to apply, in apply order
    applyQueue,
    \* the objects GetPruneObjs returned and the error it returned
    pruneObjs, getPruneErr,
    \* the error that Prune returned, "none" before it returns
    pruneErr,
    \* the fetches of objects that the latest step of the run made, with
    \* their errors, in fetching order
    fetchLog,
    \* the filters that the latest step of the run evaluated, with what
    \* they returned, in evaluation order
    filterLog,
    \* number of objects of pruneObjs that Prune has processed
    pruneIdx,
    \* events sent with TaskContext.SendEvent, in sending order
    events,
    \* mutating calls issued to the resource client, in issuing order
    clientCalls,
    \* the inventory record of the remote store and the last version token
    \* that the store assigned
    store, lastVersion,
    \* the in-memory UnstructuredInventory: Objs, ObjStatuses, ClusterObj
    ui,
    \* UnstructuredClient.statusPolicy
    statusPolicy,
    \* the counters of the "update" and "create" reactors of the test
    updateCalls, createCalls,
    \* the remote calls of the latest client operation, with their errors
    remoteCalls,
    \* the latest client operation, the error it returned, the result of
    \* the latest Get, and the number of client operations so far
    lastOp, opErr, getResult, nOps,
    \* the UpdateOptions of the latest Update, and its status write: the
    \* object it submitted and the object the main update had returned
    lastOpts, statusWrite,
    \* the in-memory record that each of two clients of one record holds,
    \* and the client of the latest operation
    held, lastClient,
    \* the inventory records handed to the merge, each as its Objects, and
    \* the Objects of the same records in the remote store
    invRecords, storedRecords,
    \* the record that the latest merge returned, the dry-run strategy of
    \* the merges, and the number of merges so far
    retained, mergeDryRun, nMerges,
    \* the events of the channel that Print reads, the number of them it
    \* has read, its counters of failed events and of reconcile timeouts,
    \* its position ("idle", "reading", "returned") and the error it returned
    printEvents, printIdx, printStats, printPc, printResult,
    \* the task list of the task runner and the state of every task of it
    \* ("pending", "running", "reported", "done", "aborted")
    taskList, taskStates,
    \* the events sent on the event channel, each with the index of its
    \* task, and the completions on the task channel that the runner has
    \* not yet received
    eventChannel, completions,
    \* whether the cancellation signal has arrived, the outcomes that the
    \* tasks have recorded, the outcomes that InvSet has written, and the
    \* error that the runner returned ("none" before it returns)
    cancelled, recorded, persisted, runnerErr

ctxVars == <<successfulApplies, failedApplies, skippedApplies,
             failedDeletes, skippedDeletes, abandonedObjects, taskChannel>>
invSetVars == <<prevInventory, invSetPc, taskResult, nAdds>>
ficVars == <<ficInv, ficErr>>

polVars == <<polInv, polObj, polPolicy, polFn, polResult>>

clientVars == <<store, lastVersion, ui, statusPolicy, updateCalls, createCalls,
                remoteCalls, lastOp, opErr, getResult, nOps, lastOpts,
                statusWrite, held, lastClient>>

runVars == <<cluster, invPolicy, dryRunStrategy, pruneFilters, desired, runPc,
             applyQueue, pruneObjs, getPruneErr, pruneErr, fetchLog, filterLog,
             pruneIdx, events, clientCalls>>

mergeVars == <<invRecords, storedRecords, retained, mergeDryRun, nMerges>>

printVars == <<printEvents, printIdx, printStats, printPc, printResult>>

runnerVars == <<taskList, taskStates, eventChannel, completions, cancelled,
                recorded, persisted, runnerErr>>

vars == <<ctxVars, invSetVars, ficVars, polVars, runVars, clientVars,
          mergeVars, printVars, runnerVars>>

(***************************************************************************)
(* TaskContext (taskrunner.NewTaskContext and its accumulators).           *)
(***************************************************************************)
NewTaskContext ==
    /\ successfulApplies = {}
    /\ failedApplies = {}
    /\ skippedApplies = {}
    /\ failedDeletes = {}
    /\ skippedDeletes = {}
    /\ abandonedObjects = {}
    /\ taskChannel = <<>>

AddSuccessfulApply(id) ==
    /\ successfulApplies' = successfulApplies \cup {id}
    /\ UNCHANGED <<failedApplies, skippedApplies, failedDeletes,
                   skippedDeletes, abandonedObjects, taskChannel>>

AddFailedApply(id) ==
    /\ failedApplies' = failedApplies \cup {id}
    /\ UNCHANGED <<successfulApplies, skippedApplies, failedDeletes,
                   skippedDeletes, abandonedObjects, taskChannel>>

AddSkippedApply(id) ==
    /\ skippedApplies' = skippedApplies \cup {id}
    /\ UNCHANGED <<successfulApplies, failedApplies, failedDeletes,
                   skippedDeletes, abandonedObjects, taskChannel>>

AddFailedDelete(id) ==
    /\ failedDeletes' = failedDeletes \cup {id}
    /\ UNCHANGED <<successfulApplies, failedApplies, skippedApplies,
                   skippedDeletes, abandonedObjects, taskChannel>>

AddSkippedDelete(id) ==
    /\ skippedDeletes' = skippedDeletes \cup {id}
    /\ UNCHANGED <<successfulApplies, failedApplies, skippedApplies,
                   failedDeletes, abandonedObjects, taskChannel>>

AddAbandonedObject(id) ==
    /\ abandonedObjects' = abandonedObjects \cup {id}
    /\ UNCHANGED <<successfulApplies, failedApplies, skippedApplies,
                   failedDeletes, skippedDeletes, taskChannel>>

(***************************************************************************)
(* FakeClient: the testing implementation of the inventory Client.         *)
(***************************************************************************)
\* NewFakeClient(objs): the stored inventory holds objs, no forced error
NewFakeClient(objs) ==
    /\ ficInv = objs
    /\ ficErr = Nil

\* a FakeClient.Update that returns without storing the inventory
FakeClientUpdateNoStore(inv) ==
    [Err |-> ficErr, Inv |-> ficInv]

\* a FakeClient.Update that adds inv to the stored inventory
FakeClientUpdateMerge(inv) ==
    IF ficErr # Nil
    THEN [Err |-> ficErr, Inv |-> ficInv]
    ELSE [Err |-> Nil, Inv |-> ficInv \cup inv]

\* FakeClient.Update: the forced error if one is set up, else store inv
FakeClientUpdate(inv) ==
    IF ficErr # Nil
    THEN [Err |-> ficErr, Inv |-> ficInv]
    ELSE [Err |-> Nil, Inv |-> inv]

\* FakeClient.SetError
SetError ==
    /\ invSetPc = "setup"
    /\ ficErr = Nil
    /\ ficErr' = ForcedErr
    /\ UNCHANGED <<ficInv, ctxVars, invSetVars, polVars, runVars>>
    /\ UNCHANGED <<clientVars, mergeVars, printVars, runnerVars>>

\* FakeClient.ClearError
ClearError ==
    /\ invSetPc = "setup"
    /\ ficErr # Nil
    /\ ficErr' = Nil
    /\ UNCHANGED <<ficInv, ctxVars, invSetVars, polVars, runVars>>
    /\ UNCHANGED <<clientVars, mergeVars, printVars, runnerVars>>

(***************************************************************************)
(* Inventory policy: InventoryIDMatch, CanApply and CanPrune.              *)
(***************************************************************************)
\* the inventory policies
InventoryPolicyMustMatch == "MustMatch"
AdoptIfNoInventory == "AdoptIfNoInventory"
AdoptAll == "AdoptAll"
InventoryPolicies == {InventoryPolicyMustMatch, AdoptIfNoInventory, AdoptAll}

\* the values of inventoryIDMatchStatus
Empty == "Empty"
Match == "Match"
NoMatch == "NoMatch"

\* a nil *unstructured.Unstructured: the object does not exist in the store
NilObj == [exists |-> FALSE, owner |-> NoAnnotation, prevent |-> FALSE]

\* the live objects: owner is the value of the owning-inventory annotation,
\* prevent tells whether the object carries the deletion-prevention annotation
LiveObjs == [exists : {TRUE}, owner : {NoAnnotation} \cup IDs, prevent : BOOLEAN]

\* an InventoryIDMatch that compares without looking for the annotation
InventoryIDMatchNoEmpty(inv, obj) ==
    IF obj.owner = inv THEN Match ELSE NoMatch

\* InventoryIDMatch: how the owning-inventory annotation of obj compares to
\* the id of the inventory
InventoryIDMatch(inv, obj) ==
    IF obj.owner = NoAnnotation THEN Empty
    ELSE IF obj.owner = inv THEN Match
    ELSE NoMatch

\* a CanApply that adopts an object of another inventory under
\* AdoptIfNoInventory
CanApplyAdoptsOther(inv, obj, policy) ==
    IF ~obj.exists THEN TRUE
    ELSE LET matchStatus == InventoryIDMatch(inv, obj)
         IN  CASE matchStatus = Empty -> policy # InventoryPolicyMustMatch
               [] matchStatus = Match -> TRUE
               [] matchStatus = NoMatch -> policy # InventoryPolicyMustMatch

\* CanApply: may the object be applied under the policy
CanApply(inv, obj, policy) ==
    IF ~obj.exists THEN TRUE
    ELSE LET matchStatus == InventoryIDMatch(inv, obj)
         IN  CASE matchStatus = Empty -> policy # InventoryPolicyMustMatch
               [] matchStatus = Match -> TRUE
               [] matchStatus = NoMatch -> policy = AdoptAll

\* a CanPrune that lets MustMatch prune an object without the annotation
CanPruneEmptyAlways(inv, obj, policy) ==
    IF ~obj.exists THEN FALSE
    ELSE LET matchStatus == InventoryIDMatch(inv, obj)
         IN  CASE matchStatus = Empty -> TRUE
               [] matchStatus = Match -> TRUE
               [] matchStatus = NoMatch -> policy = AdoptAll

\* a CanPrune that treats a nil object as an object without the annotation
CanPruneOfNilObj(inv, obj, policy) ==
    LET matchStatus == InventoryIDMatch(inv, obj)
    IN  CASE matchStatus = Empty ->
               policy = AdoptIfNoInventory \/ policy = AdoptAll
          [] matchStatus = Match -> TRUE
          [] matchStatus = NoMatch -> policy = AdoptAll

\* CanPrune: may the object be pruned under the policy
CanPrune(inv, obj, policy) ==
    IF ~obj.exists THEN FALSE
    ELSE LET matchStatus == InventoryIDMatch(inv, obj)
         IN  CASE matchStatus = Empty ->
                    policy = AdoptIfNoInventory \/ policy = AdoptAll
               [] matchStatus = Match -> TRUE
               [] matchStatus = NoMatch -> policy = AdoptAll

\* testObjectWithAnnotation(key, val): key = "" gives no annotation
TestObjectWithAnnotation(val) ==
    [exists |-> TRUE, owner |-> val, prevent |-> FALSE]

\* rows of the policy test tables; the inventory ids "random-id", "matched"
\* and "unmatched" are 1, 2 and 3
PolicyCase(obj, inv, policy, expected) ==
    [obj |-> obj, inv |-> inv, policy |-> policy, expected |-> expected]

TestInventoryIDMatchCases ==
    { PolicyCase(TestObjectWithAnnotation(NoAnnotation), 1, InventoryPolicyMustMatch, Empty),
      PolicyCase(TestObjectWithAnnotation(2), 2, InventoryPolicyMustMatch, Match),
      PolicyCase(TestObjectWithAnnotation(3), 1, InventoryPolicyMustMatch, NoMatch) }

TestCanApplyCases ==
    { PolicyCase(NilObj, 1, InventoryPolicyMustMatch, TRUE),
      PolicyCase(TestObjectWithAnnotation(NoAnnotation), 1, AdoptIfNoInventory, TRUE),
      PolicyCase(TestObjectWithAnnotation(NoAnnotation), 1, AdoptAll, TRUE),
      PolicyCase(TestObjectWithAnnotation(NoAnnotation), 1, InventoryPolicyMustMatch, FALSE),
      PolicyCase(TestObjectWithAnnotation(2), 2, InventoryPolicyMustMatch, TRUE),
      PolicyCase(TestObjectWithAnnotation(2), 2, AdoptIfNoInventory, TRUE),
      PolicyCase(TestObjectWithAnnotation(2), 2, AdoptAll, TRUE),
      PolicyCase(TestObjectWithAnnotation(3), 1, InventoryPolicyMustMatch, FALSE),
      PolicyCase(TestObjectWithAnnotation(3), 1, AdoptIfNoInventory, FALSE),
      PolicyCase(TestObjectWithAnnotation(3), 1, AdoptAll, TRUE) }

TestCanPruneCases ==
    { PolicyCase(NilObj, 1, InventoryPolicyMustMatch, FALSE),
      PolicyCase(TestObjectWithAnnotation(NoAnnotation), 1, AdoptIfNoInventory, TRUE),
      PolicyCase(TestObjectWithAnnotation(NoAnnotation), 1, AdoptAll, TRUE),
      PolicyCase(TestObjectWithAnnotation(NoAnnotation), 1, InventoryPolicyMustMatch, FALSE),
      PolicyCase(TestObjectWithAnnotation(2), 2, InventoryPolicyMustMatch, TRUE),
      PolicyCase(TestObjectWithAnnotation(2), 2, AdoptIfNoInventory, TRUE),
      PolicyCase(TestObjectWithAnnotation(2), 2, AdoptAll, TRUE),
      PolicyCase(TestObjectWithAnnotation(3), 1, InventoryPolicyMustMatch, FALSE),
      PolicyCase(TestObjectWithAnnotation(3), 1, AdoptIfNoInventory, FALSE),
      PolicyCase(TestObjectWithAnnotation(3), 1, AdoptAll, TRUE) }

\* every row of TestInventoryIDMatch, TestCanApply and TestCanPrune passes
TestPolicyPasses ==
    /\ \A tc \in TestInventoryIDMatchCases :
        InventoryIDMatch(tc.inv, tc.obj) = tc.expected
    /\ \A tc \in TestCanApplyCases :
        CanApply(tc.inv, tc.obj, tc.policy) = tc.expected
    /\ \A tc \in TestCanPruneCases :
        CanPrune(tc.inv, tc.obj, tc.policy) = tc.expected

\* actual := InventoryIDMatch(tc.inv, tc.obj)
CallInventoryIDMatch ==
    /\ polObj.exists
    /\ polFn' = "InventoryIDMatch"
    /\ polResult' = InventoryIDMatch(polInv, polObj)
    /\ UNCHANGED <<polInv, polObj, polPolicy, ctxVars, invSetVars, ficVars, runVars>>
    /\ UNCHANGED <<clientVars, mergeVars, printVars, runnerVars>>

\* actual, _ := CanApply(tc.inv, tc.obj, tc.policy)
CallCanApply ==
    /\ polFn' = "CanApply"
    /\ polResult' = CanApply(polInv, polObj, polPolicy)
    /\ UNCHANGED <<polInv, polObj, polPolicy, ctxVars, invSetVars, ficVars, runVars>>
    /\ UNCHANGED <<clientVars, mergeVars, printVars, runnerVars>>

\* actual := CanPrune(tc.inv, tc.obj, tc.policy)
CallCanPrune ==
    /\ polFn' = "CanPrune"
    /\ polResult' = CanPrune(polInv, polObj, polPolicy)
    /\ UNCHANGED <<polInv, polObj, polPolicy, ctxVars, invSetVars, ficVars, runVars>>
    /\ UNCHANGED <<clientVars, mergeVars, printVars, runnerVars>>

(***************************************************************************)
(* The resource store and the options of a run.                            *)
(***************************************************************************)
\* the id of the inventory of the run and the id of some other inventory
LocalInvID == 1
OtherInvID == 2

\* the live objects of the resource store of a run
RunLiveObjs ==
    [exists : {TRUE}, owner : {NoAnnotation, LocalInvID, OtherInvID},
     prevent : BOOLEAN]

\* the values of common.DryRunStrategy
DryRunNone == "none"
DryRunClient == "client"
DryRunServer == "server"
DryRunStrategies == {DryRunNone, DryRunClient, DryRunServer}

\* DryRunStrategy.ClientOrServerDryRun
ClientOrServerDryRun(strategy) ==
    strategy = DryRunClient \/ strategy = DryRunServer

\* the apply ordering of object ids; prune runs in the reverse ordering
ApplyBefore(a, b) == a < b

\* ordering.SortableUnstructureds: the ids of S sorted in apply order
RECURSIVE ApplyOrder(_)
ApplyOrder(S) ==
    IF S = {} THEN <<>>
    ELSE LET first == CHOOSE x \in S : \A y \in S \ {x} : ApplyBefore(x, y)
         IN  <<first>> \o ApplyOrder(S \ {first})

\* sort.Sort(ordering.SortableUnstructureds(objs)), without the reversal
PruneOrderNotReversed(S) == ApplyOrder(S)

\* sort.Sort(sort.Reverse(ordering.SortableUnstructureds(objs)))
PruneOrder(S) ==
    LET order == ApplyOrder(S)
    IN  [i \in 1..Len(order) |-> order[Len(order) + 1 - i]]

(***************************************************************************)
(* Prune filters.                                                          *)
(***************************************************************************)
PreventRemoveFilterName == "PreventRemoveFilter"
InventoryPolicyFilterName == "InventoryPolicyFilter"
LocalNamespacesFilterName == "LocalNamespacesFilter"

\* the filter lists handed to Prune: the mandatory filters in either order
FilterLists ==
    { <<PreventRemoveFilterName, InventoryPolicyFilterName,
        LocalNamespacesFilterName>>,
      <<LocalNamespacesFilterName, InventoryPolicyFilterName,
        PreventRemoveFilterName>> }

\* errors of the collaborators
FilterErr == "filter-error"
MappingErr == "mapping-error"
UpdateErr == "update-error"
DeleteErr == "delete-error"
GetErr == "get-error"
NotFoundErr == "not-found"
NoMatchErr == "no-match"
ApplyErr == "apply-error"
InventoryErr == "inventory-error"

\* what a filter whose decision depends on the rest of the run may return
FilterOutcomes == [filtered : BOOLEAN, err : {Nil, FilterErr}]

\* pruneFilter.Filter(obj): (filtered, reason, err) of the named filter;
\* other is the result of the LocalNamespacesFilter
FilterResult(name, obj, other) ==
    CASE name = PreventRemoveFilterName ->
            [filtered |-> obj.prevent, reason |-> name, err |-> Nil]
      [] name = InventoryPolicyFilterName ->
            [filtered |-> ~CanPrune(LocalInvID, obj, invPolicy),
             reason |-> name, err |-> Nil]
      [] OTHER ->
            [filtered |-> other.filtered, reason |-> name, err |-> other.err]

\* a filter loop that looks at filtered before it looks at err
FilterOutcomeKindFilteredFirst(filtered, err) ==
    IF filtered THEN "filtered" ELSE IF err # Nil THEN "error" ELSE "passed"

\* what the filter loop of Prune makes of the result of a filter: it looks
\* at err first, then at filtered
FilterOutcomeKind(filtered, err) ==
    IF err # Nil THEN "error" ELSE IF filtered THEN "filtered" ELSE "passed"

\* a filter loop that goes on to the next filter after a filter blocked
ShortCircuitsOnErrOnly(filtered, err) == err # Nil

\* the filter loop of Prune ends (break) after a filter that returned an
\* error or blocked
ShortCircuits(filtered, err) == err # Nil \/ filtered

\* the filter loop of Prune from filter i on: the first filter that returns
\* an error or blocks ends it; log lists the filters evaluated
RECURSIVE EvalFilters(_, _, _, _)
EvalFilters(filters, i, obj, other) ==
    IF i > Len(filters)
    THEN [kind |-> "passed", name |-> "", reason |-> "",
          filtered |-> FALSE, err |-> Nil, evaluated |-> Len(filters),
          log |-> <<>>]
    ELSE LET r == FilterResult(filters[i], obj, other)
             call == [name |-> filters[i], filtered |-> r.filtered,
                      err |-> r.err]
             rest == EvalFilters(filters, i + 1, obj, other)
         IN  IF ~ShortCircuits(r.filtered, r.err)
             THEN [rest EXCEPT !.log = <<call>> \o rest.log]
             ELSE [kind |-> FilterOutcomeKind(r.filtered, r.err),
                   name |-> filters[i], reason |-> r.reason,
                   filtered |-> r.filtered, err |-> r.err, evaluated |-> i,
                   log |-> <<call>>]

(***************************************************************************)
(* Pruner.                                                                 *)
(***************************************************************************)
\* events of the prune event factory
FailedEvent(id, err) ==
    [group |-> "prune", type |-> "Failed", id |-> id, err |-> err, reason |-> ""]
SkippedEvent(id, reason) ==
    [group |-> "prune", type |-> "Skipped", id |-> id, err |-> Nil, reason |-> reason]
SuccessEvent(id) ==
    [group |-> "prune", type |-> "Success", id |-> id, err |-> Nil, reason |-> ""]

\* a call of the resource client
ClientCall(verb, id) == [verb |-> verb, id |-> id]

\* outcomes of the resource client in removeInventoryAnnotation and in
\* deleteObject: the REST mapping fails, the request fails, or it succeeds
RemoveOutcomes == {"ok", MappingErr, UpdateErr}
DeleteOutcomes == {"ok", MappingErr, DeleteErr}

\* Pruner.removeInventoryAnnotation: the object without the owning-inventory
\* annotation, the error, and whether an Update was issued
RemoveInventoryAnnotation(obj, out) ==
    IF obj.owner # NoAnnotation
    THEN LET stripped == [obj EXCEPT !.owner = NoAnnotation]
         IN  CASE out = MappingErr ->
                    [obj |-> stripped, err |-> MappingErr, called |-> FALSE]
               [] out = UpdateErr ->
                    [obj |-> stripped, err |-> UpdateErr, called |-> TRUE]
               [] OTHER ->
                    [obj |-> stripped, err |-> Nil, called |-> TRUE]
    ELSE [obj |-> obj, err |-> Nil, called |-> FALSE]

\* Pruner.deleteObject: the error and whether a Delete was issued
DeleteObject(out) ==
    CASE out = MappingErr -> [err |-> MappingErr, called |-> FALSE]
      [] out = DeleteErr -> [err |-> DeleteErr, called |-> TRUE]
      [] OTHER -> [err |-> Nil, called |-> TRUE]

\* a Prune that goes on to delete an object that a filter blocked
SkipsDeleteOnErrOnly(filtered, err) == err # Nil

\* if filtered || err != nil { continue }
SkipsDelete(filtered, err) == filtered \/ err # Nil

\* the annotation is removed after a block by any filter outside a dry run
RemovesAnnotationForEveryFilter(name, strategy) ==
    ~ClientOrServerDryRun(strategy)

\* the annotation is removed after a block by the PreventRemoveFilter
\* outside a dry run
RemovesAnnotation(name, strategy) ==
    name = PreventRemoveFilterName /\ ~ClientOrServerDryRun(strategy)

\* no object is registered as abandoned
RegistersAbandonedNever(rmErr) == FALSE

\* the object is registered as abandoned when the removal of the
\* annotation returned no error
RegistersAbandoned(rmErr) == rmErr = Nil

\* the Skipped event and the skipped delete are reached after an error of
\* the removal of the annotation too
ReachesSkippedAlways(rmErr) == TRUE

\* the Skipped event and the skipped delete are reached when the removal
\* of the annotation returned no error; an error leaves the loop before
ReachesSkipped(rmErr) == rmErr = Nil

\* the effect of the filter loop of Prune on one object: events, outcome
\* registrations, resource client calls, the live object, and the values
\* of filtered and err after the loop
PruneFilterLoop(id, obj, fr, rmOut) ==
    LET none == [evs |-> <<>>, failed |-> FALSE, skipped |-> FALSE,
                 abandoned |-> FALSE, calls |-> <<>>, written |-> FALSE,
                 obj |-> obj, filtered |-> fr.filtered, err |-> fr.err]
    IN  CASE fr.kind = "error" ->
                [none EXCEPT !.evs = <<FailedEvent(id, fr.err)>>,
                             !.failed = TRUE]
          [] fr.kind = "filtered" ->
                IF RemovesAnnotation(fr.name, dryRunStrategy)
                THEN LET rm == RemoveInventoryAnnotation(obj, rmOut)
                         upd == IF rm.called
                                THEN <<ClientCall("update", id)>> ELSE <<>>
                         failed == IF rm.err # Nil
                                   THEN <<FailedEvent(id, rm.err)>> ELSE <<>>
                         skipped == IF ReachesSkipped(rm.err)
                                    THEN <<SkippedEvent(id, fr.reason)>>
                                    ELSE <<>>
                     IN  [none EXCEPT
                            !.evs = failed \o skipped,
                            !.failed = rm.err # Nil,
                            !.skipped = ReachesSkipped(rm.err),
                            !.abandoned = RegistersAbandoned(rm.err),
                            !.calls = upd,
                            !.written = rm.called /\ rm.err = Nil,
                            !.obj = rm.obj,
                            !.err = IF rm.err # Nil THEN rm.err ELSE fr.err]
                ELSE [none EXCEPT !.evs = <<SkippedEvent(id, fr.reason)>>,
                                  !.skipped = TRUE]
          [] OTHER -> none

\* the outcomes removeInventoryAnnotation can have after the filter loop
\* ended with fr: it runs only when a filter blocked and the annotation
\* is removed
RemoveChoices(fr) ==
    IF fr.kind = "filtered" /\ RemovesAnnotation(fr.name, dryRunStrategy)
    THEN RemoveOutcomes ELSE {"ok"}

\* a Prune that deletes in a dry run too
DeletesObjectInDryRun(strategy) == TRUE

\* an object that passed the filters is deleted if the run is not a dry
\* run: if !opts.DryRunStrategy.ClientOrServerDryRun()
DeletesObject(strategy) == ~ClientOrServerDryRun(strategy)

\* the outcomes deleteObject can have: it runs only when the object is not
\* skipped and the run is not a dry run
DeleteChoices(loop) ==
    IF /\ ~SkipsDelete(loop.filtered, loop.err)
       /\ DeletesObject(dryRunStrategy)
    THEN DeleteOutcomes ELSE {"ok"}

\* a Prune that takes no delete for failed
DeleteFailedNever(err) == FALSE

\* a Prune that takes every delete for failed
DeleteFailedAlways(err) == TRUE

\* the delete of the object failed: if err != nil after deleteObject
DeleteFailed(err) == err # Nil

\* the effect of the rest of an iteration of the loop of Prune, after the
\* filter loop had the effect loop
PruneAfterFilters(id, loop, delOut) ==
    LET base == [evs |-> loop.evs, failed |-> loop.failed,
                 skipped |-> loop.skipped, abandoned |-> loop.abandoned,
                 calls |-> loop.calls,
                 live |-> IF loop.written THEN loop.obj ELSE cluster[id]]
    IN  IF SkipsDelete(loop.filtered, loop.err) THEN base
        ELSE IF DeletesObject(dryRunStrategy)
        THEN LET del == DeleteObject(delOut)
                 call == IF del.called
                         THEN <<ClientCall("delete", id)>> ELSE <<>>
             IN  IF DeleteFailed(del.err)
                 THEN [base EXCEPT
                         !.evs = loop.evs \o <<FailedEvent(id, del.err)>>,
                         !.failed = TRUE, !.calls = loop.calls \o call,
                         !.live = IF del.err = Nil THEN NilObj ELSE base.live]
                 ELSE [base EXCEPT
                         !.evs = loop.evs \o <<SuccessEvent(id)>>,
                         !.calls = loop.calls \o call,
                         !.live = IF del.err = Nil THEN NilObj ELSE base.live]
        ELSE [base EXCEPT !.evs = loop.evs \o <<SuccessEvent(id)>>]

\* what the REST mapping and the Get of an object may answer besides the
\* answer of the store
FetchFaults == {Nil, NoMatchErr, GetErr}

\* Pruner.getObject: the error of fetching the object of an id; the store
\* answers not-found for an object it does not hold
getObject(id, fault) ==
    IF fault # Nil THEN fault
    ELSE IF cluster[id].exists THEN Nil ELSE NotFoundErr

\* the ids to fetch: all those of the inventory
PruneIdsOfInventory(invIDs, ids) == invIDs

\* the ids to fetch: those of the inventory that are not ids of objs
PruneIds(invIDs, ids) == invIDs \ ids

\* GetPruneObjs goes on to the next id after every error of a fetch
SkipsEveryFetchError(err) == TRUE

\* GetPruneObjs goes on to the next id after this error of a fetch
SkipsFetchError(err) == err = NoMatchErr \/ err = NotFoundErr

\* the loop of GetPruneObjs over the ids in order: the ids whose object
\* was fetched, the error that ended the loop, and the fetches made
RECURSIVE FetchObjs(_, _)
FetchObjs(order, fetch) ==
    IF order = <<>> THEN [ids |-> {}, err |-> Nil, log |-> <<>>]
    ELSE LET id == Head(order)
             err == getObject(id, fetch[id])
             entry == [id |-> id, err |-> err]
             rest == FetchObjs(Tail(order), fetch)
         IN  IF err # Nil /\ ~SkipsFetchError(err)
             THEN [ids |-> {}, err |-> err, log |-> <<entry>>]
             ELSE [ids |-> (IF err = Nil THEN {id} ELSE {}) \cup rest.ids,
                   err |-> rest.err,
                   log |-> <<entry>> \o rest.log]

\* Pruner.GetPruneObjs: the objects of the inventory that are not in objs,
\* fetched from the store, in prune order; invErr is the error of reading
\* the inventory, fetch what the REST mapping and the Get of every id
\* answer
GetPruneObjs ==
    /\ runPc = "getprune"
    /\ \E invErr \in {Nil, InventoryErr} :
        LET ids == IF invErr = Nil THEN PruneIds(ficInv, desired) ELSE {}
        IN  \E fetch \in [ids -> FetchFaults] :
            LET r == FetchObjs(ApplyOrder(ids), fetch)
                order == PruneOrder(r.ids)
            IN  /\ fetchLog' = r.log
                /\ filterLog' = <<>>
                /\ IF invErr # Nil
                   THEN /\ getPruneErr' = invErr
                        /\ pruneObjs' = <<>>
                        /\ runPc' = "done"
                   ELSE IF r.err # Nil
                   THEN /\ getPruneErr' = r.err
                        /\ pruneObjs' = <<>>
                        /\ runPc' = "done"
                   ELSE /\ getPruneErr' = Nil
                        /\ pruneObjs' = [i \in 1..Len(order) |->
                                           [id |-> order[i],
                                            obj |-> cluster[order[i]]]]
                        /\ runPc' = "prune"
    /\ UNCHANGED <<cluster, invPolicy, dryRunStrategy, pruneFilters, desired,
                   applyQueue, pruneIdx, events, clientCalls>>
    /\ UNCHANGED <<ctxVars, invSetVars, ficVars, polVars>>
    /\ UNCHANGED pruneErr
    /\ UNCHANGED <<clientVars, mergeVars, printVars, runnerVars>>

\* Pruner.Prune: one iteration of the loop over objs
PruneObj ==
    /\ runPc = "prune"
    /\ pruneIdx < Len(pruneObjs)
    /\ LET id == pruneObjs[pruneIdx + 1].id
           obj == pruneObjs[pruneIdx + 1].obj
       IN  \E other \in FilterOutcomes :
           LET fr == EvalFilters(pruneFilters, 1, obj, other)
           IN  \E rmOut \in RemoveChoices(fr) :
               LET loop == PruneFilterLoop(id, obj, fr, rmOut)
               IN  \E delOut \in DeleteChoices(loop) :
                   LET r == PruneAfterFilters(id, loop, delOut)
                   IN  /\ events' = events \o r.evs
                       /\ filterLog' = fr.log
                       /\ clientCalls' = clientCalls \o r.calls
                       /\ cluster' = [cluster EXCEPT ![id] = r.live]
                       /\ failedDeletes' =
                            IF r.failed THEN failedDeletes \cup {id}
                            ELSE failedDeletes
                       /\ skippedDeletes' =
                            IF r.skipped THEN skippedDeletes \cup {id}
                            ELSE skippedDeletes
                       /\ abandonedObjects' =
                            IF r.abandoned THEN abandonedObjects \cup {id}
                            ELSE abandonedObjects
    /\ pruneIdx' = pruneIdx + 1
    /\ fetchLog' = <<>>
    /\ UNCHANGED <<invPolicy, dryRunStrategy, pruneFilters, desired, runPc,
                   applyQueue, pruneObjs, getPruneErr>>
    /\ UNCHANGED <<successfulApplies, failedApplies, skippedApplies,
                   taskChannel, invSetVars, ficVars, polVars>>
    /\ UNCHANGED pruneErr
    /\ UNCHANGED <<clientVars, mergeVars, printVars, runnerVars>>

\* Pruner.Prune: the loop is over, return nil
PruneReturn ==
    /\ runPc = "prune"
    /\ pruneIdx = Len(pruneObjs)
    /\ runPc' = "done"
    /\ pruneErr' = Nil
    /\ fetchLog' = <<>>
    /\ filterLog' = <<>>
    /\ UNCHANGED <<cluster, invPolicy, dryRunStrategy, pruneFilters, desired,
                   applyQueue, pruneObjs, getPruneErr, pruneIdx, events,
                   clientCalls>>
    /\ UNCHANGED <<ctxVars, invSetVars, ficVars, polVars>>
    /\ UNCHANGED <<clientVars, mergeVars, printVars, runnerVars>>

(***************************************************************************)
(* Applier: the apply of one object of the desired set.                    *)
(***************************************************************************)
ApplyEvent(type, id, err) ==
    [group |-> "apply", type |-> type, id |-> id, err |-> err, reason |-> ""]

ApplyObj ==
    /\ runPc = "apply"
    /\ applyQueue # <<>>
    /\ LET id == Head(applyQueue)
           live == cluster[id]
       IN  IF ~CanApply(LocalInvID, live, invPolicy)
           THEN /\ AddSkippedApply(id)
                /\ events' = Append(events, ApplyEvent("Skipped", id, Nil))
                /\ UNCHANGED <<cluster, clientCalls>>
           ELSE \E out \in {"ok", ApplyErr} :
                  IF out = "ok"
                  THEN /\ AddSuccessfulApply(id)
                       /\ events' =
                            Append(events, ApplyEvent("Success", id, Nil))
                       /\ IF ClientOrServerDryRun(dryRunStrategy)
                          THEN UNCHANGED <<cluster, clientCalls>>
                          ELSE /\ cluster' = [cluster EXCEPT ![id] =
                                     [exists |-> TRUE, owner |-> LocalInvID,
                                      prevent |-> live.prevent]]
                               /\ clientCalls' =
                                     Append(clientCalls, ClientCall("apply", id))
                  ELSE /\ AddFailedApply(id)
                       /\ events' =
                            Append(events, ApplyEvent("Failed", id, out))
                       /\ UNCHANGED <<cluster, clientCalls>>
    /\ applyQueue' = Tail(applyQueue)
    /\ runPc' = IF Tail(applyQueue) = <<>> THEN "getprune" ELSE "apply"
    /\ fetchLog' = <<>>
    /\ filterLog' = <<>>
    /\ UNCHANGED <<invPolicy, dryRunStrategy, pruneFilters, desired,
                   pruneObjs, getPruneErr, pruneIdx>>
    /\ UNCHANGED <<invSetVars, ficVars, polVars>>
    /\ UNCHANGED pruneErr
    /\ UNCHANGED <<clientVars, mergeVars, printVars, runnerVars>>

(***************************************************************************)
(* InvSetTask: the final inventory computation and its write.              *)
(***************************************************************************)
\* the object set InvSetTask computes from the previous inventory and the
\* TaskContext outcome sets
InvSetObjs(prev, applied, applyFail, applySkip, pruneFail, pruneSkip, abandoned) ==
    LET invObjs0 == {} \cup applied
        invObjs1 == invObjs0 \cup (prev \cap applyFail)
        invObjs2 == invObjs1 \cup (prev \cap applySkip)
        invObjs3 == invObjs2 \cup (prev \cap pruneFail)
        invObjs4 == invObjs3 \cup (prev \cap pruneSkip)
    IN  invObjs4 \ abandoned

(***************************************************************************)
(* The table of TestInvSetTask: previous inventory, outcome sets and the   *)
(* inventory the test expects (id1, id2, id3 are 1, 2, 3).                 *)
(***************************************************************************)
TestCase(prev, applied, fa, fd, sa, sd, abandoned, expected) ==
    [prevInventory |-> prev, appliedObjs |-> applied,
     failedApplies |-> fa, failedDeletes |-> fd,
     skippedApplies |-> sa, skippedDeletes |-> sd,
     abandonedObjs |-> abandoned, expectedObjs |-> expected]

TestInvSetTaskCases ==
    { TestCase({}, {}, {}, {}, {}, {}, {}, {}),
      TestCase({}, {1}, {}, {}, {}, {}, {}, {1}),
      TestCase({1}, {}, {}, {1}, {}, {}, {}, {1}),
      TestCase({}, {}, {}, {1}, {}, {}, {}, {}),
      TestCase({}, {3}, {}, {3}, {}, {}, {}, {3}),
      TestCase({2, 3}, {1, 2}, {}, {2, 3}, {}, {}, {}, {1, 2, 3}),
      TestCase({}, {}, {3}, {}, {}, {}, {}, {}),
      TestCase({}, {2}, {3}, {}, {}, {}, {}, {2}),
      TestCase({3}, {2}, {3}, {}, {}, {}, {}, {2, 3}),
      TestCase({3}, {2}, {1, 3}, {}, {}, {}, {}, {2, 3}),
      TestCase({2, 3}, {}, {1, 2, 3}, {}, {}, {}, {}, {2, 3}),
      TestCase({1, 2, 3}, {}, {1, 2, 3}, {}, {}, {}, {}, {1, 2, 3}),
      TestCase({1}, {}, {}, {}, {1}, {}, {}, {1}),
      TestCase({}, {}, {}, {}, {1}, {}, {}, {}),
      TestCase({1, 2}, {2}, {}, {}, {1}, {}, {}, {1, 2}),
      TestCase({1}, {}, {}, {}, {}, {1}, {}, {1}),
      TestCase({1, 2}, {2}, {}, {}, {}, {1}, {}, {1, 2}),
      TestCase({1, 2, 3}, {1, 2}, {}, {}, {}, {}, {3}, {1, 2}),
      TestCase({2, 3}, {}, {}, {}, {}, {}, {2, 3}, {}),
      TestCase({3}, {}, {}, {}, {}, {3}, {3}, {}) }

\* the inventory InvSetTask computes on a row of the test table
InvSetObjsOfCase(tc) ==
    InvSetObjs(tc.prevInventory, tc.appliedObjs, tc.failedApplies,
               tc.skippedApplies, tc.failedDeletes, tc.skippedDeletes,
               tc.abandonedObjs)

\* every row of TestInvSetTask passes on the modelled computation
TestInvSetTaskPasses ==
    \A tc \in TestInvSetTaskCases : InvSetObjsOfCase(tc) = tc.expectedObjs

\* what the receiver of the task channel holds before it has received
NoTaskResult == [Err |-> "none"]

\* InvSetTask.Start: compute the set, write it through the inventory
\* client, report the result of the write on the task channel
InvSetTaskStart ==
    /\ invSetPc = "setup"
    /\ LET invObjs == InvSetObjs(prevInventory, successfulApplies,
                                 failedApplies, skippedApplies,
                                 failedDeletes, skippedDeletes,
                                 abandonedObjects)
           res == FakeClientUpdate(invObjs)
       IN  /\ ficInv' = res.Inv
           /\ taskChannel' = Append(taskChannel, [Err |-> res.Err])
    /\ invSetPc' = "started"
    /\ UNCHANGED <<successfulApplies, failedApplies, skippedApplies,
                   failedDeletes, skippedDeletes, abandonedObjects,
                   prevInventory, taskResult, nAdds, ficErr, polVars, runVars>>
    /\ UNCHANGED <<clientVars, mergeVars, printVars, runnerVars>>

\* result := <-context.TaskChannel()
ReceiveTaskResult ==
    /\ invSetPc = "started"
    /\ taskChannel # <<>>
    /\ taskResult' = Head(taskChannel)
    /\ taskChannel' = Tail(taskChannel)
    /\ invSetPc' = "done"
    /\ UNCHANGED <<successfulApplies, failedApplies, skippedApplies,
                   failedDeletes, skippedDeletes, abandonedObjects,
                   prevInventory, nAdds, ficVars, polVars, runVars>>
    /\ UNCHANGED <<clientVars, mergeVars, printVars, runnerVars>>

\* the part of a run's set-up common to every outcome registration
RegisterOutcome ==
    /\ invSetPc = "setup"
    /\ nAdds < MaxAdds
    /\ nAdds' = nAdds + 1
    /\ UNCHANGED <<prevInventory, invSetPc, taskResult, ficVars, polVars, runVars>>
    /\ UNCHANGED <<clientVars, mergeVars, printVars, runnerVars>>

RegisterSuccessfulApply ==
    RegisterOutcome /\ \E id \in Objs : AddSuccessfulApply(id)

RegisterFailedApply ==
    RegisterOutcome /\ \E id \in Objs : AddFailedApply(id)

RegisterSkippedApply ==
    RegisterOutcome /\ \E id \in Objs : AddSkippedApply(id)

RegisterFailedDelete ==
    RegisterOutcome /\ \E id \in Objs : AddFailedDelete(id)

RegisterSkippedDelete ==
    RegisterOutcome /\ \E id \in Objs : AddSkippedDelete(id)

RegisterAbandonedObject ==
    RegisterOutcome /\ \E id \in Objs : AddAbandonedObject(id)

(***************************************************************************)
(* The inventory record of the remote store.                               *)
(***************************************************************************)
\* errors of the remote store and of the client
ConflictErr == "conflict"
AlreadyExistsErr == "already-exists"
RemoteErr == "remote-error"
NilInventoryErr == "inventory is nil"
NilIdErr == "id is nil"
MalformedErr == "observedGeneration is not an int64"

\* the empty version token: an Update that carries it is unconditional
EmptyVersion == 0

\* the field status.observedGeneration of a stored object
NoObserved == [kind |-> "absent", value |-> 0]
MalformedObserved == [kind |-> "malformed", value |-> 0]
Observed(generation) == [kind |-> "int", value |-> generation]

\* no record in the store
AbsentObj ==
    [present |-> FALSE, data |-> <<>>, rv |-> EmptyVersion, generation |-> 0,
     observed |-> NoObserved]

\* the canonical string of an object id and its parse
ObjMetadataString(id) == <<"namespace", "name", "group", "kind", id>>
ParseObjMetadata(str) == str[5]

\* a remote call and the error it returned
RemoteCall(verb, err) == [verb |-> verb, err |-> err]

\* the store's Update: not-found for an absent record, a conflict for a
\* stale version token, else the data is replaced and a new token assigned
RemoteUpdate(st, last, uObj, fault) ==
    IF fault # Nil THEN [err |-> fault, obj |-> st, last |-> last]
    ELSE IF ~st.present THEN [err |-> NotFoundErr, obj |-> st, last |-> last]
    ELSE IF uObj.rv # EmptyVersion /\ uObj.rv # st.rv
    THEN [err |-> ConflictErr, obj |-> st, last |-> last]
    ELSE [err |-> Nil,
          obj |-> [st EXCEPT !.data = uObj.data, !.rv = last + 1,
                             !.generation = IF uObj.data = st.data THEN @
                                            ELSE @ + 1],
          last |-> last + 1]

\* the store's Create: fails when the record exists, else stores the object
\* under a new version token
RemoteCreate(st, last, uObj, fault) ==
    IF fault # Nil THEN [err |-> fault, obj |-> st, last |-> last]
    ELSE IF st.present
    THEN [err |-> AlreadyExistsErr, obj |-> st, last |-> last]
    ELSE [err |-> Nil,
          obj |-> [present |-> TRUE, data |-> uObj.data, rv |-> last + 1,
                   generation |-> 1, observed |-> uObj.observed],
          last |-> last + 1]

\* the store's UpdateStatus: writes the status of the record only
RemoteUpdateStatus(st, last, uObj, fault) ==
    IF fault # Nil THEN [err |-> fault, obj |-> st, last |-> last]
    ELSE IF ~st.present THEN [err |-> NotFoundErr, obj |-> st, last |-> last]
    ELSE IF uObj.rv # EmptyVersion /\ uObj.rv # st.rv
    THEN [err |-> ConflictErr, obj |-> st, last |-> last]
    ELSE [err |-> Nil,
          obj |-> [st EXCEPT !.observed = uObj.observed, !.rv = last + 1],
          last |-> last + 1]

(***************************************************************************)
(* The configmap encoding of an inventory.                                 *)
(***************************************************************************)
\* stringFrom(status) of an object that has a status
StatusString == "{actuation,reconcile,strategy}"

\* an object map with a key for every object and for every status
buildObjMapOfStatuses(objs, statuses) ==
    [key \in {ObjMetadataString(id) : id \in objs \cup statuses} |->
        IF ParseObjMetadata(key) \in statuses THEN StatusString ELSE ""]

\* buildObjMap: a key for every object, its status string or "" as value
buildObjMap(objs, statuses) ==
    [key \in {ObjMetadataString(id) : id \in objs} |->
        IF ParseObjMetadata(key) \in statuses THEN StatusString ELSE ""]

\* an encoding into a new object, which carries no version token
inventoryToConfigMapOfNewObj(inv) ==
    [present |-> TRUE, data |-> buildObjMap(inv.Objs, inv.ObjStatuses),
     rv |-> EmptyVersion, generation |-> 0, observed |-> NoObserved]

\* inventoryToConfigMap: a copy of ClusterObj with the object map as data
inventoryToConfigMap(inv) ==
    [inv.ClusterObj EXCEPT !.data = buildObjMap(inv.Objs, inv.ObjStatuses)]

\* a decoding that takes the keys with a status only
configMapToInventoryOfStatuses(configMap) ==
    [Objs |-> {ParseObjMetadata(key) :
                 key \in {k \in DOMAIN configMap.data : configMap.data[k] # ""}},
     ObjStatuses |-> {},
     ClusterObj |-> configMap]

\* configMapToInventory: the parsed keys of data, around the object itself
configMapToInventory(configMap) ==
    [Objs |-> {ParseObjMetadata(key) : key \in DOMAIN configMap.data},
     ObjStatuses |-> {},
     ClusterObj |-> configMap]

\* copyInventoryInfo: the inventory object of the tests, not yet stored
copyInventoryInfo ==
    [present |-> TRUE, data |-> <<>>, rv |-> EmptyVersion, generation |-> 0,
     observed |-> NoObserved]

(***************************************************************************)
(* UnstructuredClient.                                                     *)
(***************************************************************************)
\* a client that does not look at its argument
NilCheckNever(isNil, err) == Nil

\* the check at the top of Get, Delete and Update: a nil id or a nil
\* inventory is answered with err before any remote request
NilCheck(isNil, err) == IF isNil THEN err ELSE Nil

StatusPolicyNone == "None"
StatusPolicyAll == "All"

\* the errors that a remote call can be made to fail with
Faults == {Nil, RemoteErr}

\* the errors that the remote Create can be made to fail with: the record
\* can be not found persistently
CreateFaults == Faults \cup {NotFoundErr}

\* an Update that never falls back to Create
FallsBackToCreateNever(err) == FALSE

\* apierrors.IsNotFound(err) of the error of the remote Update
FallsBackToCreate(err) == err = NotFoundErr

\* UpdateOptions
UpdateOptions(updateStatus) == [UpdateStatus |-> updateStatus]

\* no status write was issued
NoStatusWrite == [issued |-> FALSE, obj |-> AbsentObj, newObj |-> AbsentObj]

\* a status write of obj, after the main update returned newObj
StatusWrite(obj, newObj) == [issued |-> TRUE, obj |-> obj, newObj |-> newObj]

\* a status write that carries the generation of the submitted object
WithObservedGenerationOfSubmitted(uObj, newObj) ==
    IF newObj.observed.kind = "int"
    THEN [uObj EXCEPT !.observed = Observed(uObj.generation)]
    ELSE uObj

\* the object of the status write: status.observedGeneration is set to the
\* generation of newObj when newObj reports an observedGeneration
WithObservedGeneration(uObj, newObj) ==
    IF newObj.observed.kind = "int"
    THEN [uObj EXCEPT !.observed = Observed(newObj.generation)]
    ELSE uObj

\* a create fallback that returns success when the remote Create failed
CreateIfAbsentSwallowsErr(same, uObj, updateErr, fault) ==
    LET c == RemoteCreate(store, lastVersion, uObj, fault)
        calls == <<RemoteCall("update", updateErr),
                   RemoteCall("create", c.err)>>
    IN  IF c.err # Nil
        THEN [same EXCEPT !.calls = calls]
        ELSE [same EXCEPT !.calls = calls, !.store = c.obj,
                          !.last = c.last, !.ClusterObj = c.obj]

\* a creation of the absent record that retries the Update after the Create
CreateIfAbsentRetriesUpdate(same, uObj, updateErr, fault) ==
    LET c == RemoteCreate(store, lastVersion, uObj, fault)
        calls == <<RemoteCall("update", updateErr),
                   RemoteCall("create", c.err)>>
    IN  IF c.err # Nil
        THEN [same EXCEPT !.err = c.err, !.calls = calls]
        ELSE [same EXCEPT !.calls = calls \o <<RemoteCall("update", Nil)>>,
                          !.store = c.obj,
                          !.last = c.last, !.ClusterObj = c.obj]

\* the create fallback of Update, after the remote Update returned the
\* not-found error updateErr: the error of the remote Create is returned,
\* else ClusterObj becomes the created object; same is the result of an
\* Update without effect
CreateIfAbsent(same, uObj, updateErr, fault) ==
    LET c == RemoteCreate(store, lastVersion, uObj, fault)
        calls == <<RemoteCall("update", updateErr),
                   RemoteCall("create", c.err)>>
    IN  IF c.err # Nil
        THEN [same EXCEPT !.err = c.err, !.calls = calls]
        ELSE [same EXCEPT !.calls = calls, !.store = c.obj,
                          !.last = c.last, !.ClusterObj = c.obj]

\* UnstructuredClient.Update of the record inv (isNil: a nil record): the
\* error returned, the remote calls, the store and the ClusterObj after it
UpdateInventory(inv, isNil, updateStatus, f) ==
    LET same == [err |-> Nil, calls |-> <<>>, store |-> store,
                 last |-> lastVersion, ClusterObj |-> inv.ClusterObj,
                 statusWrite |-> NoStatusWrite]
    IN  IF NilCheck(isNil, NilInventoryErr) # Nil
        THEN [same EXCEPT !.err = NilCheck(isNil, NilInventoryErr)]
        ELSE
        LET uObj == inventoryToConfigMap(inv)
            u == RemoteUpdate(store, lastVersion, uObj, f.update)
            updated == [same EXCEPT
                          !.calls = <<RemoteCall("update", u.err)>>,
                          !.store = u.obj, !.last = u.last]
        IN  IF FallsBackToCreate(u.err)
            THEN CreateIfAbsent(same, uObj, u.err, f.create)
            ELSE IF u.err # Nil THEN [updated EXCEPT !.err = u.err]
            ELSE IF statusPolicy = StatusPolicyNone \/ ~updateStatus
            THEN [updated EXCEPT !.ClusterObj = u.obj]
            ELSE IF u.obj.observed.kind = "malformed"
            THEN [updated EXCEPT !.err = MalformedErr, !.ClusterObj = u.obj]
            ELSE
            LET versioned == [uObj EXCEPT !.rv = u.obj.rv]
                sObj == WithObservedGeneration(versioned, u.obj)
                w == RemoteUpdateStatus(u.obj, u.last, sObj, f.status)
                calls == <<RemoteCall("update", u.err),
                           RemoteCall("updateStatus", w.err)>>
            IN  IF w.err # Nil
                THEN [updated EXCEPT !.err = w.err, !.calls = calls,
                                     !.ClusterObj = u.obj,
                                     !.statusWrite = StatusWrite(sObj, u.obj)]
                ELSE [updated EXCEPT !.calls = calls, !.store = w.obj,
                                     !.last = w.last, !.ClusterObj = w.obj,
                                     !.statusWrite = StatusWrite(sObj, u.obj)]

\* the number of calls of a verb among calls
RECURSIVE CountCalls(_, _)
CountCalls(calls, verb) ==
    IF calls = <<>> THEN 0
    ELSE (IF Head(calls).verb = verb THEN 1 ELSE 0)
         + CountCalls(Tail(calls), verb)

\* one more operation of the client
ClientOp(op) ==
    /\ nOps < MaxOps
    /\ nOps' = nOps + 1
    /\ lastOp' = op
    /\ UNCHANGED <<statusPolicy, held, lastClient>>
    /\ UNCHANGED <<ctxVars, invSetVars, ficVars, polVars, runVars, mergeVars,
                   printVars, runnerVars>>

\* BaseInventory.SetObjects
SetObjects ==
    /\ ClientOp("SetObjects")
    /\ \E objs \in SUBSET Objs : ui' = [ui EXCEPT !.Objs = objs]
    /\ UNCHANGED <<store, lastVersion, updateCalls, createCalls, remoteCalls,
                   opErr, getResult, lastOpts, statusWrite>>

\* BaseInventory.SetObjectStatuses
SetObjectStatuses ==
    /\ ClientOp("SetObjectStatuses")
    /\ \E statuses \in SUBSET Objs : ui' = [ui EXCEPT !.ObjStatuses = statuses]
    /\ UNCHANGED <<store, lastVersion, updateCalls, createCalls, remoteCalls,
                   opErr, getResult, lastOpts, statusWrite>>

\* the fault combinations of the remote calls that an Update of inv can
\* issue: no call for a nil record, a Create only after a not-found, and a
\* status write only under a status policy and when asked for
UpdateFaults(isNil, updateStatus) ==
    LET none == [update |-> Nil, create |-> Nil, status |-> Nil]
    IN  IF isNil THEN {none}
        ELSE {[none EXCEPT !.update = RemoteErr]}
             \cup (IF store.present
                   THEN IF statusPolicy # StatusPolicyNone /\ updateStatus
                        THEN {[none EXCEPT !.status = e] : e \in Faults}
                        ELSE {none}
                   ELSE {[none EXCEPT !.create = e] : e \in CreateFaults})

\* UnstructuredClient.Update of the in-memory record, or of a nil record
Update ==
    \E isNil \in BOOLEAN, updateStatus \in BOOLEAN :
      \E f \in UpdateFaults(isNil, updateStatus) :
        LET r == UpdateInventory(ui, isNil, updateStatus, f)
        IN  /\ ClientOp(IF isNil THEN "UpdateNil" ELSE "Update")
            /\ opErr' = r.err
            /\ remoteCalls' = r.calls
            /\ updateCalls' = updateCalls + CountCalls(r.calls, "update")
            /\ createCalls' = createCalls + CountCalls(r.calls, "create")
            /\ store' = r.store
            /\ lastVersion' = r.last
            /\ ui' = [ui EXCEPT !.ClusterObj = r.ClusterObj]
            /\ lastOpts' = UpdateOptions(updateStatus)
            /\ statusWrite' = r.statusWrite
            /\ UNCHANGED getResult

\* the outcomes of a remote Get or Delete of the record: a fault, not-found
\* when the store holds no record, success otherwise
RemoteLookup(fault) ==
    IF fault # Nil THEN fault
    ELSE IF ~store.present THEN NotFoundErr ELSE Nil

\* UnstructuredClient.Get of the record, or of a nil id
Get ==
    \E isNil \in BOOLEAN, fault \in Faults :
      LET pre == NilCheck(isNil, NilIdErr)
          err == IF pre # Nil THEN pre ELSE RemoteLookup(fault)
      IN  /\ isNil => fault = Nil
          /\ ClientOp(IF isNil THEN "GetNil" ELSE "Get")
          /\ opErr' = err
          /\ remoteCalls' = IF pre # Nil THEN <<>>
                            ELSE <<RemoteCall("get", err)>>
          /\ IF err # Nil THEN UNCHANGED getResult
             ELSE getResult' = configMapToInventory(store)
          /\ UNCHANGED <<store, lastVersion, ui, updateCalls, createCalls,
                         lastOpts, statusWrite>>

\* a Delete that returns every error of the remote Delete
DeleteReturnsEveryErr(err) == err

\* the error Delete returns after the remote Delete returned err: none
\* when err is not-found
DeleteReturns(err) == IF err # Nil /\ err # NotFoundErr THEN err ELSE Nil

\* UnstructuredClient.Delete of the record, or of a nil id: a record that
\* is not found counts as deleted
Delete ==
    \E isNil \in BOOLEAN, fault \in Faults :
      LET pre == NilCheck(isNil, NilIdErr)
          err == RemoteLookup(fault)
      IN  /\ isNil => fault = Nil
          /\ ClientOp(IF isNil THEN "DeleteNil" ELSE "Delete")
          /\ opErr' = IF pre # Nil THEN pre ELSE DeleteReturns(err)
          /\ remoteCalls' = IF pre # Nil THEN <<>>
                            ELSE <<RemoteCall("delete", err)>>
          /\ store' = IF pre = Nil /\ err = Nil THEN AbsentObj ELSE store
          /\ UNCHANGED <<lastVersion, ui, updateCalls, createCalls, getResult,
                         lastOpts, statusWrite>>

(***************************************************************************)
(* Two clients of one inventory record.                                    *)
(***************************************************************************)
Clients == {"c1", "c2"}
NoClient == "none"

\* the object sets that the two clients write
ClientObjSets == SUBSET (1..NumSetObjs)

\* a remote call that the store answers
NoFaults == [update |-> Nil, create |-> Nil, status |-> Nil]

\* one more operation of the client c
OpBy(c, op) ==
    /\ nOps < MaxSteps
    /\ nOps' = nOps + 1
    /\ lastOp' = op
    /\ lastClient' = c
    /\ UNCHANGED <<statusPolicy, ui, getResult, updateCalls, createCalls>>
    /\ UNCHANGED <<ctxVars, invSetVars, ficVars, polVars, runVars, mergeVars,
                   printVars, runnerVars>>

\* UnstructuredClient.Get by a client, which holds the result from then on
GetBy ==
    \E c \in Clients :
        LET err == RemoteLookup(Nil)
        IN  /\ OpBy(c, "GetBy")
            /\ opErr' = err
            /\ remoteCalls' = <<RemoteCall("get", err)>>
            /\ held' = IF err # Nil THEN held
                       ELSE [held EXCEPT ![c] = configMapToInventory(store)]
            /\ UNCHANGED <<store, lastVersion, lastOpts, statusWrite>>

\* BaseInventory.SetObjects on the record that a client holds
SetObjectsBy ==
    \E c \in Clients, objs \in ClientObjSets :
        /\ OpBy(c, "SetObjectsBy")
        /\ held' = [held EXCEPT ![c].Objs = objs]
        /\ UNCHANGED <<store, lastVersion, remoteCalls, opErr, lastOpts,
                       statusWrite>>

\* UnstructuredClient.Update of the record that a client holds
UpdateBy ==
    \E c \in Clients, updateStatus \in BOOLEAN :
        LET r == UpdateInventory(held[c], FALSE, updateStatus, NoFaults)
        IN  /\ OpBy(c, "UpdateBy")
            /\ opErr' = r.err
            /\ remoteCalls' = r.calls
            /\ store' = r.store
            /\ lastVersion' = r.last
            /\ held' = [held EXCEPT ![c].ClusterObj = r.ClusterObj]
            /\ lastOpts' = UpdateOptions(updateStatus)
            /\ statusWrite' = r.statusWrite

(***************************************************************************)
(* Merging the inventory records of one inventory id.  The merge computes  *)
(* the union of the Objects of all records, writes it into one record, the *)
(* retained one, and empties the rest; a dry run skips the writes to the   *)
(* store and still returns the retained record.  TestMergeInventoryObjs    *)
(* calls it on lists of one, two and three records under every dry-run     *)
(* strategy.                                                               *)
(***************************************************************************)
\* the longest list of records that is merged
MaxRecords == 3
\* the number of merges of one list
MaxMerges == 2

\* the lists of records of TestMergeInventoryObjs, each with the Objects
\* the test expects in the retained record; pod1, pod2 and pod3 are 1, 2
\* and 3
TestMergeInventoryObjsCases ==
    { [invs |-> <<{}>>, expected |-> {}],
      [invs |-> <<{1}>>, expected |-> {1}],
      [invs |-> <<{1}, {1}>>, expected |-> {1}],
      [invs |-> <<{1}, {2}>>, expected |-> {1, 2}],
      [invs |-> <<{1, 2}, {2}, {3}>>, expected |-> {1, 2, 3}] }

\* no merge has returned a record
NoRetained == [present |-> FALSE, index |-> 0, objs |-> {}]

\* the record of a list that a merge retains, with its Objects
Retained(index, objs) == [present |-> TRUE, index |-> index, objs |-> objs]

\* the union of the Objects of only the first record of a list
UnionOfObjectsOfFirst(invObjs) ==
    IF invObjs = <<>> THEN {} ELSE Head(invObjs)

\* the union of the Objects of the records of a list, record by record
RECURSIVE UnionOfObjects(_)
UnionOfObjects(invObjs) ==
    IF invObjs = <<>> THEN {}
    ELSE Head(invObjs) \cup UnionOfObjects(Tail(invObjs))

\* the merge of a list of records: the retained record is the first of
\* the list and gets the union, the other records are emptied, and the
\* writes reach the store unless the strategy is a dry run
mergeClusterInventory(invObjs, stored, dryRun) ==
    LET merged == UnionOfObjects(invObjs)
        emptied == [i \in DOMAIN invObjs |-> IF i = 1 THEN merged ELSE {}]
    IN  [retained |-> Retained(1, merged),
         invObjs |-> emptied,
         stored |-> IF ClientOrServerDryRun(dryRun) THEN stored ELSE emptied]

\* a call of the merge on the records at hand
Merge ==
    /\ nMerges < MaxMerges
    /\ Len(invRecords) > 0
    /\ LET r == mergeClusterInventory(invRecords, storedRecords, mergeDryRun)
       IN  /\ retained' = r.retained
           /\ invRecords' = r.invObjs
           /\ storedRecords' = r.stored
    /\ nMerges' = nMerges + 1
    /\ UNCHANGED mergeDryRun
    /\ UNCHANGED <<ctxVars, invSetVars, ficVars, polVars, runVars, clientVars,
                   printVars, runnerVars>>

(***************************************************************************)
(* BaseListPrinter.Print: the result of a run, computed from the events of *)
(* the event channel.                                                      *)
(***************************************************************************)
\* the longest event stream that Print reads
MaxEvents == 3

\* the values of event.ApplyEventOperation
ApplyUnspecified == "ApplyUnspecified"
ApplyOperations ==
    {ApplyUnspecified, "ServersideApplied", "Created", "Unchanged",
     "Configured"}

\* the events of the channel: apply events of every operation, prune and
\* delete events, each with or without an error, wait events of a
\* reconciled object and of a reconcile timeout, and the error event
PrintEventKinds ==
    [type : {"apply"}, failed : BOOLEAN, op : ApplyOperations]
    \cup [type : {"prune", "delete"}, failed : BOOLEAN, op : {"none"}]
    \cup [type : {"wait"}, failed : {FALSE}, op : {"reconciled", "timeout"}]
    \cup {[type |-> "error", failed |-> TRUE, op |-> "none"]}

\* the errors that Print returns: none, the error of an error event, the
\* error of the formatter, and the three aggregate errors with the counts
\* that their messages report
PrintErr(kind, failed, timeout) ==
    [kind |-> kind, failed |-> failed, timeout |-> timeout]
PrintNoErr == PrintErr("nil", 0, 0)
PrintNotReturned == PrintErr("none", 0, 0)

\* the counters of Print: the operation counters of ApplyStats (the sum of
\* ServersideApplied, Created, Unchanged and Configured), ApplyStats.Failed,
\* PruneStats.Failed, DeleteStats.Failed and WaitStats.Timeout
NoStats ==
    [applyOps |-> 0, applyFailed |-> 0, pruneFailed |-> 0,
     deleteFailed |-> 0, timeout |-> 0]

\* ApplyStats.inc: an operation other than ApplyUnspecified moves its
\* counter
ApplyStatsInc(stats, op) ==
    IF op = ApplyUnspecified THEN stats
    ELSE [stats EXCEPT !.applyOps = stats.applyOps + 1]

\* ApplyStats.Sum
ApplyStatsSum(stats) == stats.applyOps + stats.applyFailed

\* the counters after an event
CountEvent(stats, e) ==
    CASE e.type = "apply" ->
            LET counted == ApplyStatsInc(stats, e.op)
            IN  IF e.failed
                THEN [counted EXCEPT !.applyFailed = counted.applyFailed + 1]
                ELSE counted
      [] e.type = "prune" /\ e.failed ->
            [stats EXCEPT !.pruneFailed = stats.pruneFailed + 1]
      [] e.type = "delete" /\ e.failed ->
            [stats EXCEPT !.deleteFailed = stats.deleteFailed + 1]
      [] e.type = "wait" /\ e.op = "timeout" ->
            [stats EXCEPT !.timeout = stats.timeout + 1]
      [] OTHER -> stats

\* a sum of the failed events that leaves out the failed deletes
FailedSumWithoutDeletes(stats) == stats.applyFailed + stats.pruneFailed

\* failedSum := applyStats.Failed + pruneStats.Failed + deleteStats.Failed
FailedSum(stats) ==
    stats.applyFailed + stats.pruneFailed + stats.deleteFailed

\* the switch at the end of Print
PrintReturnValue(stats) ==
    LET failedSum == FailedSum(stats)
    IN  CASE failedSum > 0 /\ stats.timeout > 0 ->
                PrintErr("failed-and-timeout", failedSum, stats.timeout)
          [] failedSum > 0 /\ stats.timeout = 0 ->
                PrintErr("failed", failedSum, 0)
          [] failedSum = 0 /\ stats.timeout > 0 ->
                PrintErr("timeout", 0, stats.timeout)
          [] OTHER -> PrintNoErr

\* a Print that goes on reading after an error event
ReturnsErrorOfEventNever(e) == FALSE

\* case event.ErrorType: return e.ErrorEvent.Err
ReturnsErrorOfEvent(e) == e.type = "error"

\* Print reads the next event of the channel: an error event makes it
\* return the error of the event, the error of the formatter makes it
\* return that error
PrintEvent ==
    /\ printPc = "reading"
    /\ printIdx < Len(printEvents)
    /\ LET e == printEvents[printIdx + 1]
       IN  /\ printIdx' = printIdx + 1
           /\ printStats' = CountEvent(printStats, e)
           /\ \E formatErr \in BOOLEAN :
                IF ReturnsErrorOfEvent(e)
                THEN /\ printResult' = PrintErr("error-event", 0, 0)
                     /\ printPc' = "returned"
                ELSE IF formatErr
                THEN /\ printResult' = PrintErr("formatter-error", 0, 0)
                     /\ printPc' = "returned"
                ELSE UNCHANGED <<printResult, printPc>>
    /\ UNCHANGED printEvents
    /\ UNCHANGED <<ctxVars, invSetVars, ficVars, polVars, runVars, clientVars,
                   mergeVars, runnerVars>>

\* the channel is closed: Print leaves its loop and returns
PrintReturn ==
    /\ printPc = "reading"
    /\ printIdx = Len(printEvents)
    /\ printResult' = PrintReturnValue(printStats)
    /\ printPc' = "returned"
    /\ UNCHANGED <<printEvents, printIdx, printStats>>
    /\ UNCHANGED <<ctxVars, invSetVars, ficVars, polVars, runVars, clientVars,
                   mergeVars, runnerVars>>

\* Print is not in use
PrintIdle ==
    /\ printEvents = <<>>
    /\ printIdx = 0
    /\ printStats = NoStats
    /\ printPc = "idle"
    /\ printResult = PrintNotReturned

(***************************************************************************)
(* The task runner: the tasks of the task list run one at a time in list   *)
(* order; a task sends its events on the event channel and reports its     *)
(* completion on the task channel, and the runner starts the next task     *)
(* after it has received the completion.  A cancellation signal aborts the *)
(* runner between tasks, but the inventory-update task still runs.         *)
(***************************************************************************)
\* the most events that one task sends
MaxTaskEvents == 2

\* the kind of the inventory-update task; the other task kinds are
\* "InvAdd", "Apply", "Wait" and "Prune"
InvSetTaskKind == "InvSet"

\* the task lists: InvAdd, Apply and Wait, Prune, InvSet, and the list
\* without objects to prune or to wait for
TaskLists ==
    { <<"InvAdd", "Apply", "Wait", "Prune", InvSetTaskKind>>,
      <<"InvAdd", "Apply", InvSetTaskKind>> }

\* the error of a cancelled run
CancelErr == "cancelled"

\* the number of events that task i has sent
EventsOf(i, evs) == Cardinality({k \in DOMAIN evs : evs[k].task = i})

\* a runner that starts a task as soon as the tasks before it have started
CanStartWhileRunning(states, i) ==
    \A j \in 1..(i - 1) : states[j] # "pending"

\* the runner starts a task when it has received the completion of every
\* task before it, or has aborted it
CanStart(states, i) ==
    \A j \in 1..(i - 1) : states[j] \in {"done", "aborted"}

\* no task runs after the cancellation signal
RunsAfterCancelNever(kind) == FALSE

\* the task that still runs after the cancellation signal
RunsAfterCancel(kind) == kind = InvSetTaskKind

\* the first task of the list that has not started
NextPending(states) ==
    CHOOSE i \in DOMAIN states :
        /\ states[i] = "pending"
        /\ \A j \in 1..(i - 1) : states[j] # "pending"

\* the runner starts the next task of the list; the inventory-update task
\* writes the outcomes recorded so far
StartTask ==
    /\ runnerErr = "none"
    /\ \E i \in DOMAIN taskStates : taskStates[i] = "pending"
    /\ LET i == NextPending(taskStates)
       IN  /\ CanStart(taskStates, i)
           /\ ~cancelled \/ RunsAfterCancel(taskList[i])
           /\ taskStates' = [taskStates EXCEPT ![i] = "running"]
           /\ persisted' = IF taskList[i] = InvSetTaskKind
                           THEN [written |-> TRUE, outcomes |-> recorded]
                           ELSE persisted
    /\ UNCHANGED <<taskList, eventChannel, completions, cancelled, recorded,
                   runnerErr>>
    /\ UNCHANGED <<ctxVars, invSetVars, ficVars, polVars, runVars, clientVars,
                   mergeVars, printVars>>

\* after the cancellation signal the runner aborts the next task of the
\* list instead of starting it
AbortTask ==
    /\ runnerErr = "none"
    /\ \E i \in DOMAIN taskStates : taskStates[i] = "pending"
    /\ LET i == NextPending(taskStates)
       IN  /\ CanStart(taskStates, i)
           /\ cancelled /\ ~RunsAfterCancel(taskList[i])
           /\ taskStates' = [taskStates EXCEPT ![i] = "aborted"]
    /\ UNCHANGED <<taskList, eventChannel, completions, cancelled, recorded,
                   persisted, runnerErr>>
    /\ UNCHANGED <<ctxVars, invSetVars, ficVars, polVars, runVars, clientVars,
                   mergeVars, printVars>>

\* a running apply, wait or prune task records an outcome and sends its
\* event
TaskWork ==
    /\ \E i \in DOMAIN taskStates :
         /\ taskStates[i] = "running"
         /\ taskList[i] \in {"Apply", "Wait", "Prune"}
         /\ EventsOf(i, eventChannel) < MaxTaskEvents
         /\ LET n == EventsOf(i, eventChannel) + 1
            IN  /\ eventChannel' = Append(eventChannel, [task |-> i, n |-> n])
                /\ recorded' = recorded \cup {<<i, n>>}
    /\ UNCHANGED <<taskList, taskStates, completions, cancelled, persisted,
                   runnerErr>>
    /\ UNCHANGED <<ctxVars, invSetVars, ficVars, polVars, runVars, clientVars,
                   mergeVars, printVars>>

\* a running task reports its completion on the task channel, with the
\* cancellation error when it has observed the cancellation
TaskComplete ==
    /\ \E i \in DOMAIN taskStates :
         /\ taskStates[i] = "running"
         /\ \E err \in (IF cancelled THEN {Nil, CancelErr} ELSE {Nil}) :
              completions' = Append(completions, [task |-> i, Err |-> err])
         /\ taskStates' = [taskStates EXCEPT ![i] = "reported"]
    /\ UNCHANGED <<taskList, eventChannel, cancelled, recorded, persisted,
                   runnerErr>>
    /\ UNCHANGED <<ctxVars, invSetVars, ficVars, polVars, runVars, clientVars,
                   mergeVars, printVars>>

\* the runner receives a completion from the task channel
ReceiveCompletion ==
    /\ completions # <<>>
    /\ taskStates' = [taskStates EXCEPT ![Head(completions).task] = "done"]
    /\ completions' = Tail(completions)
    /\ UNCHANGED <<taskList, eventChannel, cancelled, recorded, persisted,
                   runnerErr>>
    /\ UNCHANGED <<ctxVars, invSetVars, ficVars, polVars, runVars, clientVars,
                   mergeVars, printVars>>

\* the cancellation signal arrives
Cancel ==
    /\ runnerErr = "none"
    /\ ~cancelled
    /\ cancelled' = TRUE
    /\ UNCHANGED <<taskList, taskStates, eventChannel, completions, recorded,
                   persisted, runnerErr>>
    /\ UNCHANGED <<ctxVars, invSetVars, ficVars, polVars, runVars, clientVars,
                   mergeVars, printVars>>

\* the runner returns when no task is left
RunnerReturn ==
    /\ runnerErr = "none"
    /\ \A i \in DOMAIN taskStates : taskStates[i] \in {"done", "aborted"}
    /\ runnerErr' = IF cancelled THEN CancelErr ELSE Nil
    /\ UNCHANGED <<taskList, taskStates, eventChannel, completions, cancelled,
                   recorded, persisted>>
    /\ UNCHANGED <<ctxVars, invSetVars, ficVars, polVars, runVars, clientVars,
                   mergeVars, printVars>>

\* nothing has been written by the inventory-update task
NotPersisted == [written |-> FALSE, outcomes |-> {}]

\* the task runner is not in use
RunnerIdle ==
    /\ taskList = <<>>
    /\ taskStates = <<>>
    /\ eventChannel = <<>>
    /\ completions = <<>>
    /\ cancelled = FALSE
    /\ recorded = {}
    /\ persisted = NotPersisted
    /\ runnerErr = Nil

(***************************************************************************)
(* Specifications.                                                         *)
(***************************************************************************)
\* no merge of inventory records is in progress
MergeIdle ==
    /\ invRecords = <<>>
    /\ storedRecords = <<>>
    /\ retained = NoRetained
    /\ mergeDryRun = DryRunNone
    /\ nMerges = MaxMerges

\* the inventory-update task is not in use
InvSetIdle ==
    /\ prevInventory = {}
    /\ invSetPc = "idle"
    /\ taskResult = NoTaskResult
    /\ nAdds = 0

\* no two clients of one record are in use
NoClients ==
    /\ held = [c \in Clients |-> configMapToInventory(copyInventoryInfo)]
    /\ lastClient = NoClient

\* the unstructured inventory client is not in use
ClientIdle ==
    /\ store = AbsentObj
    /\ lastVersion = 0
    /\ ui = configMapToInventory(copyInventoryInfo)
    /\ statusPolicy = StatusPolicyNone
    /\ updateCalls = 0
    /\ createCalls = 0
    /\ remoteCalls = <<>>
    /\ lastOp = "none"
    /\ opErr = Nil
    /\ getResult = configMapToInventory(copyInventoryInfo)
    /\ nOps = MaxOps
    /\ lastOpts = UpdateOptions(FALSE)
    /\ statusWrite = NoStatusWrite
    /\ NoClients

\* no run of the applier and the pruner is in progress
RunIdle ==
    /\ cluster = [id \in Objs |-> NilObj]
    /\ invPolicy = InventoryPolicyMustMatch
    /\ dryRunStrategy = DryRunNone
    /\ pruneFilters = <<>>
    /\ desired = {}
    /\ runPc = "idle"
    /\ applyQueue = <<>>
    /\ pruneObjs = <<>>
    /\ getPruneErr = Nil
    /\ pruneErr = "none"
    /\ fetchLog = <<>>
    /\ filterLog = <<>>
    /\ pruneIdx = 0
    /\ events = <<>>
    /\ clientCalls = <<>>

\* the policy functions are not in use
PolicyIdle ==
    /\ polInv = NoAnnotation
    /\ polObj = NilObj
    /\ polPolicy = InventoryPolicyMustMatch
    /\ polFn = "none"
    /\ polResult = "none"

\* a run of the inventory-update task on a fresh TaskContext, as
\* TestInvSetTask sets it up
InitInvSet ==
    /\ NewTaskContext
    /\ \E objs \in SUBSET Objs : NewFakeClient(objs)
    /\ prevInventory \in SUBSET Objs
    /\ invSetPc = "setup"
    /\ taskResult = NoTaskResult
    /\ nAdds = 0
    /\ PolicyIdle
    /\ RunIdle
    /\ ClientIdle
    /\ MergeIdle
    /\ PrintIdle
    /\ RunnerIdle

NextInvSet ==
    \/ RegisterSuccessfulApply
    \/ RegisterFailedApply
    \/ RegisterSkippedApply
    \/ RegisterFailedDelete
    \/ RegisterSkippedDelete
    \/ RegisterAbandonedObject
    \/ SetError
    \/ ClearError
    \/ InvSetTaskStart
    \/ ReceiveTaskResult

SpecInvSet == InitInvSet /\ [][NextInvSet]_vars

\* the same run when the caller of Start blocks on the receive from the
\* task channel, as TestInvSetTask does: a result that was sent is received
SpecInvSetLive == SpecInvSet /\ WF_vars(ReceiveTaskResult)

\* calls of the policy functions on every inventory id, live object and
\* policy
InitPolicy ==
    /\ polInv \in IDs
    /\ polObj \in {NilObj} \cup LiveObjs
    /\ polPolicy \in InventoryPolicies
    /\ polFn = "none"
    /\ polResult = "none"
    /\ NewTaskContext
    /\ NewFakeClient({})
    /\ InvSetIdle
    /\ RunIdle
    /\ ClientIdle
    /\ MergeIdle
    /\ PrintIdle
    /\ RunnerIdle

NextPolicy ==
    \/ CallInventoryIDMatch
    \/ CallCanApply
    \/ CallCanPrune

SpecPolicy == InitPolicy /\ [][NextPolicy]_vars

\* a run of the applier and the pruner: the desired objects are applied in
\* apply order, then the prune set is computed and pruned; every object is
\* in the desired set or in the inventory (a run touches no other object),
\* and a desired object carries no deletion-prevention annotation (only
\* the prune filters read it, and a desired object is never pruned)
InitRun ==
    /\ NewTaskContext
    /\ desired \in SUBSET Objs
    /\ \E objs \in SUBSET Objs :
         /\ objs \cup desired = Objs
         /\ NewFakeClient(objs)
    /\ InvSetIdle
    /\ PolicyIdle
    /\ cluster \in [Objs -> {NilObj} \cup RunLiveObjs]
    /\ \A id \in desired : ~cluster[id].prevent
    /\ invPolicy \in InventoryPolicies
    /\ dryRunStrategy \in DryRunStrategies
    /\ pruneFilters \in FilterLists
    /\ applyQueue = ApplyOrder(desired)
    /\ runPc = IF desired = {} THEN "getprune" ELSE "apply"
    /\ pruneObjs = <<>>
    /\ getPruneErr = Nil
    /\ pruneErr = "none"
    /\ fetchLog = <<>>
    /\ filterLog = <<>>
    /\ pruneIdx = 0
    /\ events = <<>>
    /\ clientCalls = <<>>
    /\ ClientIdle
    /\ MergeIdle
    /\ PrintIdle
    /\ RunnerIdle

NextRun ==
    \/ ApplyObj
    \/ GetPruneObjs
    \/ PruneObj
    \/ PruneReturn

SpecRun == InitRun /\ [][NextRun]_vars

\* the records that the store can hold before the client is used
StoredObjs ==
    [present : {TRUE},
     data : {buildObjMap(objs, {}) : objs \in SUBSET Objs},
     rv : {1}, generation : {1},
     observed : {NoObserved, MalformedObserved, Observed(1)}]

\* a client of the inventory store with one in-memory record, as in
\* TestCreateOrUpdate; the store holds no record or a record of any content
InitClient ==
    /\ store \in {AbsentObj} \cup StoredObjs
    /\ lastVersion = IF store.present THEN store.rv ELSE 0
    /\ ui = configMapToInventory(copyInventoryInfo)
    /\ statusPolicy \in {StatusPolicyNone, StatusPolicyAll}
    /\ updateCalls = 0
    /\ createCalls = 0
    /\ remoteCalls = <<>>
    /\ lastOp = "none"
    /\ opErr = Nil
    /\ getResult = configMapToInventory(copyInventoryInfo)
    /\ nOps = 0
    /\ lastOpts = UpdateOptions(FALSE)
    /\ statusWrite = NoStatusWrite
    /\ NoClients
    /\ NewTaskContext
    /\ NewFakeClient({})
    /\ InvSetIdle
    /\ PolicyIdle
    /\ RunIdle
    /\ MergeIdle
    /\ PrintIdle
    /\ RunnerIdle

NextClient ==
    \/ SetObjects
    \/ SetObjectStatuses
    \/ Update
    \/ Get
    \/ Delete

SpecClient == InitClient /\ [][NextClient]_vars

\* two clients of one inventory record, each with a record of its own that
\* it Gets, changes and Updates; the store answers every call
InitClients ==
    /\ store \in {AbsentObj} \cup
                 {[present |-> TRUE, data |-> buildObjMap(objs, {}), rv |-> 1,
                   generation |-> 1, observed |-> NoObserved] :
                  objs \in ClientObjSets}
    /\ lastVersion = IF store.present THEN store.rv ELSE 0
    /\ statusPolicy \in {StatusPolicyNone, StatusPolicyAll}
    /\ NoClients
    /\ ui = configMapToInventory(copyInventoryInfo)
    /\ getResult = configMapToInventory(copyInventoryInfo)
    /\ updateCalls = 0
    /\ createCalls = 0
    /\ remoteCalls = <<>>
    /\ lastOp = "none"
    /\ opErr = Nil
    /\ nOps = 0
    /\ lastOpts = UpdateOptions(FALSE)
    /\ statusWrite = NoStatusWrite
    /\ NewTaskContext
    /\ NewFakeClient({})
    /\ InvSetIdle
    /\ PolicyIdle
    /\ RunIdle
    /\ MergeIdle
    /\ PrintIdle
    /\ RunnerIdle

NextClients ==
    \/ GetBy
    \/ SetObjectsBy
    \/ UpdateBy

SpecClients == InitClients /\ [][NextClients]_vars

\* the lists of at most MaxRecords records, each with any Objects
RecordLists ==
    UNION {[1..n -> SUBSET Objs] : n \in 1..MaxRecords}

\* merges of every list of records under every dry-run strategy; the
\* store holds the records as they are handed to the first merge
InitMerge ==
    /\ invRecords \in RecordLists
    /\ storedRecords = invRecords
    /\ retained = NoRetained
    /\ mergeDryRun \in DryRunStrategies
    /\ nMerges = 0
    /\ NewTaskContext
    /\ NewFakeClient({})
    /\ InvSetIdle
    /\ PolicyIdle
    /\ RunIdle
    /\ ClientIdle
    /\ PrintIdle
    /\ RunnerIdle

NextMerge ==
    \/ Merge

SpecMerge == InitMerge /\ [][NextMerge]_vars

\* the event streams of at most MaxEvents events
EventStreams ==
    UNION {[1..n -> PrintEventKinds] : n \in 0..MaxEvents}

\* Print on every event stream
InitPrint ==
    /\ printEvents \in EventStreams
    /\ printIdx = 0
    /\ printStats = NoStats
    /\ printPc = "reading"
    /\ printResult = PrintNotReturned
    /\ NewTaskContext
    /\ NewFakeClient({})
    /\ InvSetIdle
    /\ PolicyIdle
    /\ RunIdle
    /\ ClientIdle
    /\ MergeIdle
    /\ RunnerIdle

NextPrint ==
    \/ PrintEvent
    \/ PrintReturn

SpecPrint == InitPrint /\ [][NextPrint]_vars

\* a run of the task runner on every task list
InitRunner ==
    /\ taskList \in TaskLists
    /\ taskStates = [i \in DOMAIN taskList |-> "pending"]
    /\ eventChannel = <<>>
    /\ completions = <<>>
    /\ cancelled = FALSE
    /\ recorded = {}
    /\ persisted = NotPersisted
    /\ runnerErr = "none"
    /\ NewTaskContext
    /\ NewFakeClient({})
    /\ InvSetIdle
    /\ PolicyIdle
    /\ RunIdle
    /\ ClientIdle
    /\ MergeIdle
    /\ PrintIdle

NextRunner ==
    \/ StartTask
    \/ AbortTask
    \/ TaskWork
    \/ TaskComplete
    \/ ReceiveCompletion
    \/ Cancel
    \/ RunnerReturn

SpecRunner == InitRunner /\ [][NextRunner]_vars

(***************************************************************************)
(* The inventory-update task: claims C1..C5.                               *)
(***************************************************************************)
\* InvSetTask has run and its write reached the store
InvWritten == invSetPc # "setup" /\ ficErr = Nil

\* C1 (as stated): the written inventory equals
\* (appliedOK \cup (appliedFailed \cap prev) \cup (appliedSkipped \cap prev)
\*  \cup failedDeletes \cup skippedDeletes) \ abandoned
C1_AsStated ==
    InvWritten =>
        ficInv = (successfulApplies
                  \cup (failedApplies \cap prevInventory)
                  \cup (skippedApplies \cap prevInventory)
                  \cup failedDeletes
                  \cup skippedDeletes) \ abandonedObjects

\* C1 (amended): the written inventory equals appliedOK together with the
\* objects of the previous inventory whose apply or delete failed or was
\* skipped, minus the abandoned objects
C1_WrittenInventory ==
    InvWritten =>
        ficInv = (successfulApplies
                  \cup (failedApplies \cap prevInventory)
                  \cup (skippedApplies \cap prevInventory)
                  \cup (failedDeletes \cap prevInventory)
                  \cup (skippedDeletes \cap prevInventory)) \ abandonedObjects

C1_Witness ==
    /\ InvWritten
    /\ successfulApplies # {}
    /\ (failedDeletes \cap prevInventory) \ abandonedObjects # {}
    /\ ficInv # successfulApplies

\* C2: the written inventory is a subset of prevInventory \cup appliedOK
C2_SubsetOfPrevAndApplied ==
    InvWritten => ficInv \subseteq (prevInventory \cup successfulApplies)

C2_Witness ==
    /\ InvWritten
    /\ ficInv # {}
    /\ \E id \in Objs :
        /\ id \in failedDeletes \cup skippedDeletes
                  \cup failedApplies \cup skippedApplies
        /\ id \notin prevInventory \cup successfulApplies

\* C3: no abandoned object is in the written inventory
C3_NoAbandonedInInventory ==
    InvWritten => ficInv \cap abandonedObjects = {}

C3_Witness ==
    /\ InvWritten
    /\ \E id \in abandonedObjects :
        /\ id \in successfulApplies
        /\ id \in failedDeletes \cup skippedDeletes
        /\ id \in prevInventory

\* C4 (as stated): every object both in appliedOK and in failedDeletes is in
\* the written inventory
C4_AsStated ==
    InvWritten => (successfulApplies \cap failedDeletes) \subseteq ficInv

\* C4 (amended): every object both in appliedOK and in failedDeletes that
\* is not abandoned is in the written inventory
C4_AppliedAndFailedDeleteKept ==
    InvWritten =>
        ((successfulApplies \cap failedDeletes) \ abandonedObjects)
            \subseteq ficInv

C4_Witness ==
    /\ InvWritten
    /\ \E id \in (successfulApplies \cap failedDeletes) \ abandonedObjects :
        id \notin prevInventory

\* C5: every object of prevInventory whose apply or delete failed or was
\* skipped, and that is not abandoned, is in the written inventory
C5_FailedOrSkippedKept ==
    InvWritten =>
        ((prevInventory \cap (failedApplies \cup skippedApplies
                              \cup failedDeletes \cup skippedDeletes))
            \ abandonedObjects) \subseteq ficInv

C5_Witness ==
    /\ InvWritten
    /\ \E id \in prevInventory \ (abandonedObjects \cup successfulApplies) :
        id \in failedApplies \cup skippedApplies
               \cup failedDeletes \cup skippedDeletes

(***************************************************************************)
(* The inventory policy: claims C6..C8.                                    *)
(***************************************************************************)
\* C6: on an existing live object CanApply is true exactly when the owner
\* annotation matches the inventory id, or it is absent and the policy is
\* AdoptIfNoInventory or AdoptAll, or it differs and the policy is AdoptAll
C6_CanApplyTruthTable ==
    (polFn = "CanApply" /\ polObj.exists) =>
        polResult = ( \/ polObj.owner = polInv
                      \/ /\ polObj.owner = NoAnnotation
                         /\ polPolicy \in {AdoptIfNoInventory, AdoptAll}
                      \/ /\ polObj.owner \notin {NoAnnotation, polInv}
                         /\ polPolicy = AdoptAll )

C6_Witness ==
    /\ polFn = "CanApply"
    /\ polObj.exists
    /\ polObj.owner \notin {NoAnnotation, polInv}
    /\ polPolicy = AdoptIfNoInventory
    /\ polResult = FALSE

\* C7: on an existing live object CanPrune is true exactly for (Match, any
\* policy), (Empty, AdoptIfNoInventory), (Empty, AdoptAll) and (NoMatch,
\* AdoptAll)
C7_CanPruneTruthTable ==
    (polFn = "CanPrune" /\ polObj.exists) =>
        LET st == IF polObj.owner = NoAnnotation THEN Empty
                  ELSE IF polObj.owner = polInv THEN Match ELSE NoMatch
        IN  polResult =
              (<<st, polPolicy>> \in
                  ({Match} \X InventoryPolicies)
                  \cup {<<Empty, AdoptIfNoInventory>>, <<Empty, AdoptAll>>,
                        <<NoMatch, AdoptAll>>})

C7_Witness ==
    /\ polFn = "CanPrune"
    /\ polObj.exists
    /\ polObj.owner = NoAnnotation
    /\ polPolicy = InventoryPolicyMustMatch
    /\ polResult = FALSE

\* C8: InventoryIDMatch returns exactly one of Empty, Match, NoMatch: Empty
\* iff the object carries no owning-inventory annotation, Match iff the
\* annotation equals the inventory id, NoMatch iff it has any other value
C8_InventoryIDMatchClassifies ==
    polFn = "InventoryIDMatch" =>
        /\ polResult \in {Empty, Match, NoMatch}
        /\ (polResult = Empty) <=> (polObj.owner = NoAnnotation)
        /\ (polResult = Match) <=> (polObj.owner = polInv)
        /\ (polResult = NoMatch) <=>
              (polObj.owner # NoAnnotation /\ polObj.owner # polInv)

C8_Witness ==
    /\ polFn = "InventoryIDMatch"
    /\ polObj.owner \in IDs \ {polInv}
    /\ polResult = NoMatch


\* the entries that a step appends to a log
NewEntries(log, logAfter) == SubSeq(logAfter, Len(log) + 1, Len(logAfter))

\* an object that exists and whose owning-inventory annotation is not the
\* id of the current inventory (it names another inventory or is absent)
OwnedByOther(id) ==
    /\ cluster[id].exists
    /\ cluster[id].owner # LocalInvID

\* a step of a run under MustMatch leaves every object alone whose live
\* owning-inventory annotation differs from the id of the current inventory
C9_MustMatchStep ==
    invPolicy = InventoryPolicyMustMatch =>
        \A id \in Objs :
            OwnedByOther(id) =>
                /\ id \in successfulApplies' => id \in successfulApplies
                /\ cluster'[id].exists
                /\ \A i \in DOMAIN NewEntries(clientCalls, clientCalls') :
                     LET c == NewEntries(clientCalls, clientCalls')[i]
                     IN  c.id = id => c.verb \notin {"apply", "delete"}
                /\ \A i \in DOMAIN NewEntries(events, events') :
                     LET e == NewEntries(events, events')[i]
                     IN  e.id = id => e.type # "Success"

\* C9: under the MustMatch policy no step of a run applies over or deletes
\* an object whose live owning-inventory annotation differs from the id of
\* the current inventory: the step does not register it as applied,
\* issues no apply and no Delete for it, emits no prune Success event for
\* it, and the object still exists after the step.
C9_MustMatchNeverAppliesOrDeletes == [][C9_MustMatchStep]_vars

\* a run under MustMatch is over; it skipped the apply of an object owned by
\* another inventory and the InventoryPolicyFilter blocked the prune of
\* another one, and both objects still exist
C9_Witness ==
    /\ invPolicy = InventoryPolicyMustMatch
    /\ runPc = "done"
    /\ \E a \in desired, d \in ficInv \ desired :
        /\ OwnedByOther(a)
        /\ cluster[a].owner = OtherInvID
        /\ a \in skippedApplies
        /\ OwnedByOther(d)
        /\ cluster[d].owner = OtherInvID
        /\ d \in skippedDeletes
        /\ \E i \in DOMAIN events :
             events[i] = SkippedEvent(d, InventoryPolicyFilterName)

(***************************************************************************)
(* The unstructured inventory client: claim C10.                           *)
(***************************************************************************)
\* the step is an Update of the in-memory record in which the store answered
\* every remote call: no call failed, but for the Update of an absent record
\* that returned not-found
AnsweredUpdateStep ==
    /\ lastOp' = "Update"
    /\ nOps' = nOps + 1
    /\ \A i \in DOMAIN remoteCalls' :
         \/ remoteCalls'[i].err = Nil
         \/ /\ i = 1
            /\ remoteCalls'[i] = RemoteCall("update", NotFoundErr)

\* the store holds the record with the object set of the in-memory record
StoreHoldsObjects(st, inv) ==
    /\ st.present
    /\ configMapToInventory(st).Objs = inv.Objs

\* the effect of an answered Update: an update and a create when the record
\* was absent, one update and no create when it was present
C10_CreateOrUpdateStep ==
    AnsweredUpdateStep =>
        /\ ~store.present =>
             /\ remoteCalls' = <<RemoteCall("update", NotFoundErr),
                                 RemoteCall("create", Nil)>>
             /\ updateCalls' = updateCalls + 1
             /\ createCalls' = createCalls + 1
             /\ opErr' = Nil
        /\ store.present =>
             /\ CountCalls(remoteCalls', "update") = 1
             /\ CountCalls(remoteCalls', "create") = 0
             /\ remoteCalls'[1] = RemoteCall("update", Nil)
             /\ updateCalls' = updateCalls + 1
             /\ createCalls' = createCalls
        /\ StoreHoldsObjects(store', ui)
        /\ ui'.ClusterObj = store'

\* C10: create-or-update: an Update of a record that is absent from the
\* store issues exactly one remote Update, which returns not-found, and then
\* exactly one remote Create, and the store then holds the record with the
\* object set of the in-memory record; an Update of a record that the store
\* holds issues exactly one remote Update and no Create, and the store then
\* holds the new object set. From an empty store the counters of remote
\* calls are 1 update and 1 create after the first Update and 2 updates and
\* 1 create after the second.
C10_CreateOrUpdate == [][C10_CreateOrUpdateStep]_vars

\* the record was created by a first Update and updated by a second one
\* with another object set: 2 updates and 1 create were counted, and the
\* store holds the second object set
C10_Witness ==
    /\ lastOp = "Update"
    /\ opErr = Nil
    /\ updateCalls = 2
    /\ createCalls = 1
    /\ remoteCalls = <<RemoteCall("update", Nil)>>
    /\ nOps = 4
    /\ ui.Objs # {}
    /\ StoreHoldsObjects(store, ui)
    /\ store.rv = 2

(***************************************************************************)
(* The status write of Update: claims C11 and C12.                         *)
(***************************************************************************)
\* the step is an Update of the in-memory record
UpdateStep ==
    /\ lastOp' = "Update"
    /\ nOps' = nOps + 1

\* C11: every Update that is called with updateStatus set under a status
\* policy other than None and that returns success has issued a status
\* write (UpdateStatus) for the record, whether the record was present
\* (update) or absent (create).
C11_AsStated ==
    [][(/\ UpdateStep
        /\ lastOpts'.UpdateStatus
        /\ statusPolicy # StatusPolicyNone
        /\ opErr' = Nil)
       => \E i \in DOMAIN remoteCalls' :
            remoteCalls'[i].verb = "updateStatus"]_vars

\* C12: when Update writes the status and the object returned by the main
\* update reports status.observedGeneration, the status write carries
\* observedGeneration equal to the generation of that returned object; when
\* the returned object reports none, the status write carries the status
\* of the encoded in-memory record unchanged (none is added).
C12_ObservedGeneration ==
    [][(UpdateStep /\ statusWrite'.issued) =>
        /\ statusWrite'.newObj.observed.kind = "int" =>
             statusWrite'.obj.observed =
                Observed(statusWrite'.newObj.generation)
        /\ statusWrite'.newObj.observed.kind = "absent" =>
             statusWrite'.obj.observed = inventoryToConfigMap(ui).observed]_vars

\* a status write was issued after the main update raised the generation of
\* a record that reports an observedGeneration: it carries the new
\* generation, which the in-memory record did not hold before the Update
C12_Witness ==
    /\ lastOp = "Update"
    /\ statusWrite.issued
    /\ statusWrite.newObj.observed.kind = "int"
    /\ statusWrite.newObj.generation = 2
    /\ statusWrite.obj.observed = Observed(2)
    /\ opErr = Nil
    /\ store.observed = Observed(2)

(***************************************************************************)
(* Delete: claim C13.                                                      *)
(***************************************************************************)
\* the step is a Delete of the record (not of a nil id)
DeleteStep ==
    /\ lastOp' = "Delete"
    /\ nOps' = nOps + 1
    /\ remoteCalls' # <<>>

\* C13: Delete is idempotent: the Delete of a record that is absent from the
\* store (the remote Delete returns not-found) returns success and leaves
\* the store as it is; a Delete that returns success leaves no record, so
\* that a Delete repeated after it succeeds again and changes nothing; and
\* a remote error other than not-found is returned and the store unchanged.
C13_DeleteIdempotent ==
    [][DeleteStep =>
        LET err == remoteCalls'[1].err
        IN  /\ remoteCalls' = <<RemoteCall("delete", err)>>
            /\ err = NotFoundErr => opErr' = Nil /\ store' = store
            /\ err \notin {Nil, NotFoundErr} => opErr' = err /\ store' = store
            /\ opErr' = Nil => ~store'.present
            /\ (~store.present /\ err \in {Nil, NotFoundErr}) =>
                 /\ err = NotFoundErr
                 /\ opErr' = Nil
                 /\ store' = store]_vars

\* the record of the store was deleted, and a second Delete, which the
\* store answered with not-found, succeeded as well
C13_Witness ==
    /\ lastOp = "Delete"
    /\ nOps = 2
    /\ updateCalls = 0
    /\ lastVersion > 0
    /\ remoteCalls = <<RemoteCall("delete", NotFoundErr)>>
    /\ opErr = Nil
    /\ ~store.present

(***************************************************************************)
(* The errors of Update: claim C14.                                        *)
(***************************************************************************)
\* the remote call failed, and not as the Update of an absent record does
FailedCall(call) ==
    /\ call.err # Nil
    /\ ~(call.verb = "update" /\ call.err = NotFoundErr)

\* C14: when the remote Update fails with an error other than not-found, or
\* the fallback Create fails, or the status write fails, Update returns
\* that same error and issues no further remote call; after a failure of
\* the main Update or of the Create the ClusterObj of the in-memory record
\* (and so its version token) is as it was before the call.
C14_UpdateErrors ==
    [][UpdateStep =>
        \A i \in DOMAIN remoteCalls' :
            FailedCall(remoteCalls'[i]) =>
                /\ opErr' = remoteCalls'[i].err
                /\ i = Len(remoteCalls')
                /\ remoteCalls'[i].verb \in {"update", "create"} =>
                     /\ ui'.ClusterObj = ui.ClusterObj
                     /\ store' = store]_vars

\* an Update of the stored record failed in its fallback Create, which did
\* not find the record either: the error was returned and the ClusterObj
\* still carries the version token of the earlier write
C14_Witness ==
    /\ lastOp = "Update"
    /\ remoteCalls = <<RemoteCall("update", NotFoundErr),
                       RemoteCall("create", NotFoundErr)>>
    /\ opErr = NotFoundErr
    /\ ui.ClusterObj.rv # EmptyVersion
    /\ ~store.present

(***************************************************************************)
(* Optimistic concurrency: claim C15.                                      *)
(***************************************************************************)
\* the step is an Update by the client c of the record it holds
UpdateStepBy(c) ==
    /\ lastOp' = "UpdateBy"
    /\ nOps' = nOps + 1
    /\ lastClient' = c

\* the version token that the client c holds was captured from the store
\* (at a Get or at a successful write) and the record was written since
HoldsStaleToken(c) ==
    /\ held[c].ClusterObj.rv # EmptyVersion
    /\ store.present
    /\ held[c].ClusterObj.rv # store.rv

\* C15: an Update submits the version token of the ClusterObj of the record,
\* captured at Get time or at its last successful write. When the record
\* was written by another client since, the Update is rejected with a
\* conflict, which is returned to the caller after that one remote call (no
\* retry), and the store keeps what the other client wrote; an Update that
\* carries the current token succeeds and the record takes the new token.
C15_OptimisticConcurrency ==
    [][\A c \in Clients : UpdateStepBy(c) =>
        /\ inventoryToConfigMap(held[c]).rv = held[c].ClusterObj.rv
        /\ HoldsStaleToken(c) =>
             /\ opErr' = ConflictErr
             /\ remoteCalls' = <<RemoteCall("update", ConflictErr)>>
             /\ store' = store
             /\ held' = held
        /\ (store.present /\ held[c].ClusterObj.rv = store.rv) =>
             /\ opErr' = Nil
             /\ held'[c].ClusterObj = store'
             /\ store'.rv > store.rv]_vars

\* both clients got the record; one wrote its object set, and the Update of
\* the other, with another object set and the token of its Get, was rejected
\* with a conflict: the store holds what the first one wrote
C15_Witness ==
    /\ lastOp = "UpdateBy"
    /\ opErr = ConflictErr
    /\ \E c \in Clients \ {lastClient} :
        /\ held[c].ClusterObj = store
        /\ configMapToInventory(store).Objs = held[c].Objs
        /\ held[c].Objs # held[lastClient].Objs
        /\ held[lastClient].ClusterObj.rv = 1
        /\ store.rv = 2

(***************************************************************************)
(* The encoding of the inventory: claims C16 and C17.                      *)
(***************************************************************************)
\* decoding the encoding of inv yields the object set of inv
RoundTrips(inv) ==
    configMapToInventory(inventoryToConfigMap(inv)).Objs = inv.Objs

\* the step is a successful Get that follows a successful Update
GetAfterUpdateStep ==
    /\ lastOp = "Update"
    /\ opErr = Nil
    /\ lastOp' = "Get"
    /\ nOps' = nOps + 1
    /\ opErr' = Nil

\* C16: round trip: for every object set (and set of statuses), encoding an
\* inventory with inventoryToConfigMap and decoding the result with
\* configMapToInventory yields an equal Objects set; and the inventory that
\* a Get returns after a successful Update has the Objects of the updated
\* record.
C16_RoundTrip ==
    [][/\ RoundTrips(ui)
       /\ RoundTrips(ui')
       /\ GetAfterUpdateStep => getResult'.Objs = ui.Objs]_vars

\* a record with two objects, one of them with a status, was written by an
\* Update, and the Get after it returned the same two objects
C16_Witness ==
    /\ lastOp = "Get"
    /\ opErr = Nil
    /\ getResult.Objs = ui.Objs
    /\ Cardinality(ui.Objs) >= 2
    /\ ui.Objs \cap ui.ObjStatuses # {}
    /\ ui.Objs \ ui.ObjStatuses # {}
    /\ getResult.ClusterObj = store
    /\ updateCalls = 1

\* the keys of data are the canonical strings of the objects of inv, with
\* the status string of an object that has a status and "" for the others
KeysAreObjects(data, inv) ==
    /\ DOMAIN data = {ObjMetadataString(id) : id \in inv.Objs}
    /\ \A id \in inv.Objs :
         data[ObjMetadataString(id)] =
            IF id \in inv.ObjStatuses THEN StatusString ELSE ""

\* C17: in every encoded inventory record, and in the record that the store
\* holds after a successful Update, the keys of the data map are exactly
\* the canonical strings of Objects: a status of an object that is not in
\* Objects is not written, an object with a status has its status string
\* as value and an object without a status the empty string.
C17_KeysAreObjects ==
    /\ KeysAreObjects(inventoryToConfigMap(ui).data, ui)
    /\ (lastOp = "Update" /\ opErr = Nil) => KeysAreObjects(store.data, ui)

\* a record with a status for one of its objects and a status for an object
\* that it does not hold was written by an Update
C17_Witness ==
    /\ lastOp = "Update"
    /\ opErr = Nil
    /\ ui.ObjStatuses \ ui.Objs # {}
    /\ ui.ObjStatuses \cap ui.Objs # {}
    /\ store.present
    /\ DOMAIN store.data = {ObjMetadataString(id) : id \in ui.Objs}

(***************************************************************************)
(* Merging inventory records: claim C18.                                   *)
(***************************************************************************)
\* a merge of the records at hand returns
MergeStep == nMerges' = nMerges + 1

\* the Objects of all records of a list
AllObjects(invObjs) == UNION {invObjs[i] : i \in DOMAIN invObjs}

\* C18: under every dry-run strategy a merge of several records returns
\* one retained record whose Objects are the union of the Objects of all
\* the records, as TestMergeInventoryObjs expects for its lists; a merge of
\* the result of a merge returns the same record and changes no record
C18_MergeIsUnion ==
    [][MergeStep =>
        /\ retained'.present
        /\ retained'.objs = AllObjects(invRecords)
        /\ \A tc \in TestMergeInventoryObjsCases :
              (nMerges = 0 /\ invRecords = tc.invs)
                  => retained'.objs = tc.expected
        /\ nMerges > 0 =>
              /\ retained' = retained
              /\ invRecords' = invRecords
              /\ storedRecords' = storedRecords]_vars

\* three records with different Objects have been merged twice in a
\* server dry run, which has left them in the store as they were
C18_Witness ==
    /\ nMerges >= 2
    /\ mergeDryRun = DryRunServer
    /\ storedRecords = <<{1}, {2}, {}>>
    /\ retained = Retained(1, {1, 2})
    /\ invRecords = <<{1, 2}, {}, {}>>

(***************************************************************************)
(* The prune set: claims C19 and C20.                                      *)
(***************************************************************************)
\* GetPruneObjs returns
GetPruneStep == runPc = "getprune" /\ runPc' # "getprune"

\* the ids of a list of objects to prune
PruneSetIds(objs) == {objs[i].id : i \in DOMAIN objs}

\* the ids of the fetches of a log
FetchedIds(log) == {log[i].id : i \in DOMAIN log}

\* the ids whose fetch reported not-found or an unregistered kind
NotFoundOrNoMatchIds(log) ==
    {log[i].id : i \in {j \in DOMAIN log :
                            log[j].err \in {NotFoundErr, NoMatchErr}}}

\* C19: when GetPruneObjs returns objects, their ids are exactly the ids
\* of the inventory that are not ids of desired objects, without the ids
\* whose fetch reported not-found or an unregistered kind; every returned
\* object is the live object of its id, none is desired and none is
\* outside the inventory
C19_PruneSet ==
    [][(GetPruneStep /\ getPruneErr' = Nil) =>
        /\ PruneSetIds(pruneObjs')
             = (ficInv \ desired) \ NotFoundOrNoMatchIds(fetchLog')
        /\ \A i \in DOMAIN pruneObjs' :
              /\ pruneObjs'[i].obj = cluster[pruneObjs'[i].id]
              /\ pruneObjs'[i].obj.exists
        /\ PruneSetIds(pruneObjs') \cap desired = {}
        /\ PruneSetIds(pruneObjs') \subseteq ficInv]_vars

\* GetPruneObjs has returned the one object of the inventory that is
\* live and not desired, next to a desired object of the inventory
C19_Witness ==
    /\ runPc = "prune"
    /\ pruneIdx = 0
    /\ ficInv = {1, 2}
    /\ desired = {1}
    /\ cluster[1].exists
    /\ fetchLog = <<[id |-> 2, err |-> Nil]>>
    /\ PruneSetIds(pruneObjs) = {2}

\* C20: a fetch that reports not-found or an unregistered kind is
\* followed by the fetch of the next id, and when no other error occurs
\* every id of the inventory that is not desired is fetched; any other
\* error of a fetch ends the fetches and is returned, as is the error of
\* reading the inventory, before which nothing is fetched; with an error
\* GetPruneObjs returns no object and the run ends
C20_FetchErrors ==
    [][GetPruneStep =>
        /\ \A i \in DOMAIN fetchLog' :
              IF fetchLog'[i].err \in {Nil, NotFoundErr, NoMatchErr}
              THEN \/ i < Len(fetchLog')
                   \/ (getPruneErr' = Nil
                        /\ FetchedIds(fetchLog') = ficInv \ desired)
              ELSE /\ i = Len(fetchLog')
                   /\ getPruneErr' = fetchLog'[i].err
        /\ getPruneErr' # Nil =>
              /\ pruneObjs' = <<>>
              /\ runPc' = "done"
              /\ \/ getPruneErr' = InventoryErr /\ fetchLog' = <<>>
                 \/ /\ fetchLog' # <<>>
                    /\ getPruneErr' = fetchLog'[Len(fetchLog')].err
                    /\ getPruneErr' = GetErr]_vars

\* the fetch of the first id reported an unregistered kind, the fetch of
\* the second id failed, and GetPruneObjs returned that error and no object
C20_Witness ==
    /\ runPc = "done"
    /\ getPruneErr = GetErr
    /\ pruneObjs = <<>>
    /\ fetchLog = <<[id |-> 1, err |-> NoMatchErr],
                    [id |-> 2, err |-> GetErr]>>
    /\ cluster[1].exists

(***************************************************************************)
(* The loop of Prune: claims C21..C27.                                     *)
(***************************************************************************)
\* Prune goes through one iteration of its loop over objs
PruneStep == runPc = "prune" /\ pruneIdx' = pruneIdx + 1

\* C21: the objects that GetPruneObjs returns are in the strict reverse of
\* the apply ordering: of two returned objects one precedes the other
\* exactly when it comes after the other in apply order; and every
\* iteration of Prune handles the next object of the list it was given,
\* so that the prune events come in the order of that list
C21_ReverseApplyOrder ==
    [][/\ (GetPruneStep /\ getPruneErr' = Nil) =>
            \A i, j \in DOMAIN pruneObjs' :
                i < j <=> ApplyBefore(pruneObjs'[j].id, pruneObjs'[i].id)
       /\ PruneStep =>
            /\ NewEntries(events, events') # <<>>
            /\ \A k \in DOMAIN NewEntries(events, events') :
                  /\ NewEntries(events, events')[k].group = "prune"
                  /\ NewEntries(events, events')[k].id
                        = pruneObjs[pruneIdx + 1].id]_vars

\* Prune has handled two objects: the one that is applied last first
C21_Witness ==
    /\ runPc = "done"
    /\ Len(pruneObjs) = 2
    /\ ApplyBefore(pruneObjs[2].id, pruneObjs[1].id)
    /\ Len(events) = 2
    /\ events[1].group = "prune" /\ events[1].id = pruneObjs[1].id
    /\ events[2].group = "prune" /\ events[2].id = pruneObjs[2].id

\* a filter returned blocked or an error
BlocksOrFails(call) == call.filtered \/ call.err # Nil

\* the id of the object that the iteration of Prune handles
PrunedId == pruneObjs[pruneIdx + 1].id

\* C22: an iteration of Prune evaluates the filters in declaration order
\* and stops at the first one that returns blocked or an error: no filter
\* declared after it is evaluated, every filter is evaluated when none
\* blocks or fails, and the first blocking or failing filter decides the
\* outcome: the object is not deleted and gets no Success event, an error
\* gives the Failed event with that error, and a block by a filter other
\* than the PreventRemoveFilter gives the Skipped event with its reason
C22_FirstFilterDecides ==
    [][PruneStep =>
        /\ Len(filterLog') <= Len(pruneFilters)
        /\ \A k \in DOMAIN filterLog' :
              /\ filterLog'[k].name = pruneFilters[k]
              /\ BlocksOrFails(filterLog'[k]) =>
                    /\ k = Len(filterLog')
                    /\ Len(NewEntries(events, events')) = 1
                    /\ NewEntries(events, events')[1].type # "Success"
                    /\ \A c \in DOMAIN NewEntries(clientCalls, clientCalls') :
                          NewEntries(clientCalls, clientCalls')[c].verb
                              # "delete"
                    /\ filterLog'[k].err # Nil =>
                          NewEntries(events, events')[1]
                              = FailedEvent(PrunedId, filterLog'[k].err)
                    /\ (/\ filterLog'[k].err = Nil
                        /\ filterLog'[k].name # PreventRemoveFilterName) =>
                          NewEntries(events, events')[1]
                              = SkippedEvent(PrunedId, filterLog'[k].name)
        /\ Len(filterLog') < Len(pruneFilters) =>
              /\ filterLog' # <<>>
              /\ BlocksOrFails(filterLog'[Len(filterLog')])]_vars

\* the second of three filters has blocked the prune of an object that the
\* first filter let pass, and the third filter was not evaluated
C22_Witness ==
    /\ runPc = "prune"
    /\ pruneIdx > 0
    /\ Len(pruneFilters) = 3
    /\ Len(filterLog) = 2
    /\ ~BlocksOrFails(filterLog[1])
    /\ filterLog[2] = [name |-> InventoryPolicyFilterName,
                       filtered |-> TRUE, err |-> Nil]
    /\ events[Len(events)]
         = SkippedEvent(pruneObjs[pruneIdx].id, InventoryPolicyFilterName)

\* the last filter that the iteration of Prune evaluated
LastFilterCall == filterLog'[Len(filterLog')]

\* C23: when a filter returns an error for an object, with or without
\* blocked, Prune emits the Failed event with that error and nothing else,
\* registers the object as a failed delete, and registers it neither as a
\* skipped delete nor as abandoned
C23_FilterErrorFails ==
    [][(PruneStep /\ filterLog' # <<>> /\ LastFilterCall.err # Nil) =>
        /\ NewEntries(events, events')
             = <<FailedEvent(PrunedId, LastFilterCall.err)>>
        /\ PrunedId \in failedDeletes'
        /\ PrunedId \notin skippedDeletes'
        /\ PrunedId \notin abandonedObjects'
        /\ clientCalls' = clientCalls]_vars

\* a filter has returned blocked together with an error, and the object
\* is a failed delete only
C23_Witness ==
    /\ runPc = "prune"
    /\ pruneIdx > 0
    /\ filterLog # <<>>
    /\ filterLog[Len(filterLog)].filtered
    /\ filterLog[Len(filterLog)].err = FilterErr
    /\ events[Len(events)] = FailedEvent(pruneObjs[pruneIdx].id, FilterErr)
    /\ pruneObjs[pruneIdx].id \in failedDeletes
    /\ pruneObjs[pruneIdx].id \notin skippedDeletes \cup abandonedObjects

\* the iteration of Prune ended its filter loop with a block, without an
\* error, by the PreventRemoveFilter outside a dry run
PreventRemoveBlocks ==
    /\ PruneStep
    /\ filterLog' # <<>>
    /\ LastFilterCall = [name |-> PreventRemoveFilterName,
                         filtered |-> TRUE, err |-> Nil]
    /\ ~ClientOrServerDryRun(dryRunStrategy)

\* the inventory that InvSetTask writes for the outcome sets after the
\* step, the inventory of the run being the previous inventory
InventoryAfterStep ==
    InvSetObjs(ficInv, successfulApplies', failedApplies', skippedApplies', failedDeletes', skippedDeletes', abandonedObjects')

\* the inventory that InvSetTask writes for the outcome sets of the state,
\* the inventory of the run being the previous inventory
ComputedInventoryOfRun ==
    InvSetObjs(ficInv, successfulApplies, failedApplies, skippedApplies,
               failedDeletes, skippedDeletes, abandonedObjects)

\* C24: when the PreventRemoveFilter blocks the prune of an object outside
\* a dry run and the object is left without the owning-inventory
\* annotation, Prune registers the object as abandoned and emits the
\* Skipped event with the reason of the filter, and the inventory that
\* InvSetTask writes does not hold the object, which the previous
\* inventory held
C24_PreventRemoveAbandons ==
    [][(PreventRemoveBlocks /\ cluster'[PrunedId].owner = NoAnnotation) =>
        /\ PrunedId \in abandonedObjects'
        /\ NewEntries(events, events')
             = <<SkippedEvent(PrunedId, PreventRemoveFilterName)>>
        /\ PrunedId \in ficInv
        /\ PrunedId \notin InventoryAfterStep]_vars

\* the PreventRemoveFilter blocked the prune of an object of this
\* inventory, the Update that removes the annotation was issued and
\* answered, and the object is abandoned
C24_Witness ==
    /\ runPc = "prune"
    /\ pruneIdx > 0
    /\ dryRunStrategy = DryRunNone
    /\ filterLog # <<>>
    /\ filterLog[Len(filterLog)].name = PreventRemoveFilterName
    /\ filterLog[Len(filterLog)].filtered
    /\ pruneObjs[pruneIdx].obj.owner = LocalInvID
    /\ cluster[pruneObjs[pruneIdx].id].owner = NoAnnotation
    /\ cluster[pruneObjs[pruneIdx].id].exists
    /\ clientCalls # <<>>
    /\ clientCalls[Len(clientCalls)]
         = ClientCall("update", pruneObjs[pruneIdx].id)
    /\ pruneObjs[pruneIdx].id \in abandonedObjects
    /\ pruneObjs[pruneIdx].id \in ficInv

\* C25: when a filter other than the PreventRemoveFilter blocks the prune
\* of an object, Prune registers a skipped delete, emits the Skipped event
\* with the reason of the filter, does not register the object as
\* abandoned and issues no Update that removes the annotation
C25_OtherFilterSkips ==
    [][(/\ PruneStep
        /\ filterLog' # <<>>
        /\ LastFilterCall.filtered
        /\ LastFilterCall.err = Nil
        /\ LastFilterCall.name # PreventRemoveFilterName) =>
        /\ PrunedId \in skippedDeletes'
        /\ NewEntries(events, events')
             = <<SkippedEvent(PrunedId, LastFilterCall.name)>>
        /\ PrunedId \notin abandonedObjects'
        /\ clientCalls' = clientCalls
        /\ cluster' = cluster]_vars

\* outside a dry run the LocalNamespacesFilter has blocked the prune of an
\* object that carries the annotation: it is a skipped delete, keeps the
\* annotation and is not abandoned
C25_Witness ==
    /\ runPc = "prune"
    /\ pruneIdx > 0
    /\ dryRunStrategy = DryRunNone
    /\ filterLog # <<>>
    /\ filterLog[Len(filterLog)] = [name |-> LocalNamespacesFilterName,
                                    filtered |-> TRUE, err |-> Nil]
    /\ events[Len(events)]
         = SkippedEvent(pruneObjs[pruneIdx].id, LocalNamespacesFilterName)
    /\ pruneObjs[pruneIdx].id \in skippedDeletes
    /\ pruneObjs[pruneIdx].id \notin abandonedObjects
    /\ cluster[pruneObjs[pruneIdx].id].owner = LocalInvID
    /\ clientCalls = <<>>

\* C26: when the PreventRemoveFilter blocks the prune of an object outside
\* a dry run and the removal of the owning-inventory annotation fails, the
\* object is neither abandoned nor a skipped delete; it is a failed delete
\* with one Failed event that carries the error, no Skipped event, and
\* the inventory that InvSetTask writes holds it
C26_RemoveAnnotationFails ==
    [][(PreventRemoveBlocks /\ cluster'[PrunedId].owner # NoAnnotation) =>
        /\ PrunedId \notin abandonedObjects'
        /\ PrunedId \notin skippedDeletes'
        /\ PrunedId \in failedDeletes'
        /\ \E err \in {MappingErr, UpdateErr} :
              NewEntries(events, events') = <<FailedEvent(PrunedId, err)>>
        /\ PrunedId \in InventoryAfterStep]_vars

\* the Update that removes the annotation of an object was issued and
\* failed after the PreventRemoveFilter blocked its prune: the object is
\* a failed delete and keeps the annotation
C26_Witness ==
    /\ runPc = "prune"
    /\ pruneIdx > 0
    /\ filterLog # <<>>
    /\ filterLog[Len(filterLog)].name = PreventRemoveFilterName
    /\ filterLog[Len(filterLog)].filtered
    /\ events[Len(events)] = FailedEvent(pruneObjs[pruneIdx].id, UpdateErr)
    /\ clientCalls # <<>>
    /\ clientCalls[Len(clientCalls)]
         = ClientCall("update", pruneObjs[pruneIdx].id)
    /\ cluster[pruneObjs[pruneIdx].id].owner # NoAnnotation
    /\ pruneObjs[pruneIdx].id \in failedDeletes
    /\ pruneObjs[pruneIdx].id \notin skippedDeletes \cup abandonedObjects

\* the object of the iteration of Prune passed every filter, the run is no
\* dry run, and the object is still there after the iteration: its
\* delete failed
DeleteFails ==
    /\ PruneStep
    /\ Len(filterLog') = Len(pruneFilters)
    /\ \A k \in DOMAIN filterLog' : ~BlocksOrFails(filterLog'[k])
    /\ ~ClientOrServerDryRun(dryRunStrategy)
    /\ cluster'[PrunedId].exists

\* Prune returns
PruneReturns == runPc = "prune" /\ runPc' = "done"

\* C27: when the delete of an object fails, Prune emits the Failed event
\* with the error and registers the object as a failed delete, and goes on
\* with the next object; Prune returns no error and has then handled every
\* object it was given, whatever failures of filters, of removals of the
\* annotation and of deletes there were
C27_DeleteFailureContinues ==
    [][/\ DeleteFails =>
            /\ \E err \in {MappingErr, DeleteErr} :
                  NewEntries(events, events') = <<FailedEvent(PrunedId, err)>>
            /\ PrunedId \in failedDeletes'
            /\ runPc' = "prune"
            /\ pruneIdx' = pruneIdx + 1
       /\ PruneReturns =>
            /\ pruneErr' = Nil
            /\ pruneIdx = Len(pruneObjs)
            /\ Len(events) >= Len(pruneObjs)
            /\ \A i \in DOMAIN pruneObjs :
                  events[Len(events) - Len(pruneObjs) + i].id
                      = pruneObjs[i].id]_vars

\* Prune has returned no error after the delete of its first object
\* failed and its second object was handled
C27_Witness ==
    /\ runPc = "done"
    /\ pruneErr = Nil
    /\ Len(pruneObjs) = 2
    /\ Len(events) = 2
    /\ events[1] = FailedEvent(pruneObjs[1].id, DeleteErr)
    /\ events[2].id = pruneObjs[2].id
    /\ pruneObjs[1].id \in failedDeletes
    /\ clientCalls # <<>>
    /\ clientCalls[1] = ClientCall("delete", pruneObjs[1].id)
    /\ cluster[pruneObjs[1].id].exists

(***************************************************************************)
(* The result of a run: claim C28.                                         *)
(***************************************************************************)
\* the number of events of a stream that are failed apply, prune or
\* delete events
FailedEvents(evs) ==
    Cardinality({i \in DOMAIN evs :
                    evs[i].type \in {"apply", "prune", "delete"}
                    /\ evs[i].failed})

\* the number of events of a stream that are reconcile timeouts
TimeoutEvents(evs) ==
    Cardinality({i \in DOMAIN evs :
                    evs[i].type = "wait" /\ evs[i].op = "timeout"})

\* Print returns at the end of the event stream
PrintReturnsAtEnd ==
    /\ printPc = "reading"
    /\ printPc' = "returned"
    /\ printIdx' = printIdx

\* C28: when the event stream ends without an error event and without an
\* error of the formatter, Print returns no error exactly when the stream
\* holds no failed apply, prune or delete event and no reconcile timeout;
\* otherwise it returns the aggregate error that reports the number of
\* failed events when there are some and the number of timeouts when
\* there are some
C28_PrintResult ==
    [][PrintReturnsAtEnd =>
        LET failed == FailedEvents(printEvents)
            timeout == TimeoutEvents(printEvents)
        IN  /\ \A i \in DOMAIN printEvents : printEvents[i].type # "error"
            /\ printResult' = PrintNoErr <=> (failed = 0 /\ timeout = 0)
            /\ (failed > 0 /\ timeout > 0) =>
                  printResult' = PrintErr("failed-and-timeout", failed, timeout)
            /\ (failed > 0 /\ timeout = 0) =>
                  printResult' = PrintErr("failed", failed, 0)
            /\ (failed = 0 /\ timeout > 0) =>
                  printResult' = PrintErr("timeout", 0, timeout)]_vars

\* Print has returned the aggregate error of a stream with a failed
\* prune event, a failed delete event and a reconcile timeout
C28_Witness ==
    /\ printPc = "returned"
    /\ printIdx = Len(printEvents)
    /\ Len(printEvents) = 3
    /\ printEvents[1] = [type |-> "prune", failed |-> TRUE, op |-> "none"]
    /\ printEvents[2] = [type |-> "delete", failed |-> TRUE, op |-> "none"]
    /\ printEvents[3] = [type |-> "wait", failed |-> FALSE, op |-> "timeout"]
    /\ printResult = PrintErr("failed-and-timeout", 2, 1)

(***************************************************************************)
(* The task runner: claims C29 and C30.                                    *)
(***************************************************************************)
\* the runner starts task i in the step
Starts(i) == taskStates[i] = "pending" /\ taskStates'[i] = "running"

\* C29: the events of the event channel are in the order of their tasks
\* in the task list: no event of a task comes after an event of a later
\* task; and the runner starts a task only after it has received from the
\* task channel the completion of every earlier task that it started
C29_EventOrderAcrossTasks ==
    [][/\ \A a, b \in DOMAIN eventChannel' :
            a < b => eventChannel'[a].task <= eventChannel'[b].task
       /\ \A i \in DOMAIN taskStates :
            Starts(i) =>
               /\ \A j \in 1..(i - 1) : taskStates[j] \in {"done", "aborted"}
               /\ \A k \in DOMAIN completions : completions[k].task >= i]_vars

\* a run without cancellation is over, in which the apply, wait and prune
\* tasks have each sent events
C29_Witness ==
    /\ runnerErr = Nil
    /\ Len(taskList) = 5
    /\ ~cancelled
    /\ \A i \in 2..4 : EventsOf(i, eventChannel) = MaxTaskEvents
    /\ \A i \in DOMAIN taskStates : taskStates[i] = "done"

InvSetStartStep == invSetPc = "setup" /\ invSetPc' = "started"

\* the inventory that InvSetTask.Start computes from the accumulators
ComputedInventory ==
    InvSetObjs(prevInventory, successfulApplies, failedApplies,
               skippedApplies, failedDeletes, skippedDeletes,
               abandonedObjects)

\* Start sends one result; when the update of the inventory client
\* succeeds its error is nil and the inventory is written by then
C31_StartSendsOneResult ==
    InvSetStartStep =>
        /\ Len(taskChannel') = Len(taskChannel) + 1
        /\ (ficErr = Nil =>
              /\ taskChannel'[Len(taskChannel')].Err = Nil
              /\ ficInv' = ComputedInventory)

\* no result is on the task channel before Start, one result is sent in
\* all, and nothing is left on the channel once it has been received
C31_AtMostOneResult ==
    /\ (invSetPc = "setup" => taskChannel = <<>>)
    /\ (invSetPc = "started" => Len(taskChannel) = 1)
    /\ (invSetPc = "done" => taskChannel = <<>> /\ taskResult # NoTaskResult)

NilArgumentStep ==
    /\ nOps' = nOps + 1
    /\ lastOp' \in {"GetNil", "DeleteNil", "UpdateNil"}

\* C33: Get and Delete called with a nil id, and Update called with a nil
\* inventory, return an error, issue no remote request and leave the store
\* as it was
C33_NilArguments ==
    [][NilArgumentStep =>
        /\ opErr' # Nil
        /\ remoteCalls' = <<>>
        /\ updateCalls' = updateCalls
        /\ createCalls' = createCalls
        /\ store' = store
        /\ lastVersion' = lastVersion]_vars

\* a record is stored, and each of the three calls has been made with a
\* nil argument, the Delete last
C33_Witness ==
    /\ lastOp = "DeleteNil"
    /\ opErr = NilIdErr
    /\ remoteCalls = <<>>
    /\ store.present
    /\ store.data # buildObjMap({}, {})


(***************************************************************************)
(* Prune in a dry run: claim C34.                                          *)
(***************************************************************************)
\* the run is a client or a server dry run
IsDryRun == dryRunStrategy \in {DryRunClient, DryRunServer}

\* every filter that the iteration evaluated returned not blocked and no
\* error, and the iteration evaluated all of them
PassesAllFilters ==
    /\ Len(filterLog') = Len(pruneFilters)
    /\ \A i \in 1..Len(filterLog') : ~BlocksOrFails(filterLog'[i])

\* C34: under a client or server dry run an iteration of Prune issues no
\* call to the resource client (no Delete, no Update that removes the
\* annotation), changes no object of the store and registers no object as
\* abandoned; an object that passes all filters gets a Success event, and
\* an object that the PreventRemoveFilter blocks gets a Skipped event and
\* is a skipped delete
C34_DryRunPrune ==
    [][(PruneStep /\ IsDryRun) =>
        /\ clientCalls' = clientCalls
        /\ cluster' = cluster
        /\ abandonedObjects' = abandonedObjects
        /\ PassesAllFilters =>
              /\ NewEntries(events, events') = <<SuccessEvent(PrunedId)>>
              /\ failedDeletes' = failedDeletes
              /\ skippedDeletes' = skippedDeletes
        /\ (/\ filterLog' # <<>>
            /\ LastFilterCall = [name |-> PreventRemoveFilterName,
                                 filtered |-> TRUE, err |-> Nil]) =>
              /\ NewEntries(events, events')
                   = <<SkippedEvent(PrunedId, PreventRemoveFilterName)>>
              /\ PrunedId \in skippedDeletes']_vars

\* a server dry run of Prune has handled two objects: the PreventRemoveFilter
\* blocked the first, which carries the annotation, and the second passed
\* all filters; no call was issued and both objects are in the store
C34_Witness ==
    /\ dryRunStrategy = DryRunServer
    /\ runPc = "prune"
    /\ pruneIdx = 2
    /\ clientCalls = <<>>
    /\ abandonedObjects = {}
    /\ events = <<SkippedEvent(pruneObjs[1].id, PreventRemoveFilterName),
                  SuccessEvent(pruneObjs[2].id)>>
    /\ skippedDeletes = {pruneObjs[1].id}
    /\ cluster[pruneObjs[1].id].owner = LocalInvID
    /\ cluster[pruneObjs[1].id].prevent
    /\ cluster[pruneObjs[2].id].exists


(***************************************************************************)
(* Deletes only after all filters passed: claim C35.                       *)
(***************************************************************************)
\* the calls of the resource client that the step issues
NewClientCalls == NewEntries(clientCalls, clientCalls')

\* the step issues a remote Delete
IssuesDelete ==
    \E i \in 1..Len(NewClientCalls) : NewClientCalls[i].verb = "delete"

\* C35: an iteration of Prune issues a remote Delete only for the object
\* it handles and only if every prune filter was evaluated on it and
\* returned not blocked and no error; an object for which an evaluated
\* filter blocked or returned an error is not deleted from the store
C35_DeleteOnlyAfterAllFiltersPass ==
    [][PruneStep =>
        /\ IssuesDelete =>
              /\ PassesAllFilters
              /\ NewClientCalls = <<ClientCall("delete", PrunedId)>>
        /\ (\E i \in 1..Len(filterLog') : BlocksOrFails(filterLog'[i])) =>
              /\ ~IssuesDelete
              /\ cluster'[PrunedId].exists = cluster[PrunedId].exists
        /\ \A id \in Objs :
              (cluster[id].exists /\ ~cluster'[id].exists) =>
                  id = PrunedId /\ IssuesDelete]_vars

\* Prune has deleted an object that passed the three filters, after the
\* LocalNamespacesFilter had blocked the object before it, which is still
\* in the store
C35_Witness ==
    /\ runPc = "prune"
    /\ pruneIdx = 2
    /\ Len(filterLog) = Len(pruneFilters)
    /\ \A i \in 1..Len(filterLog) : ~BlocksOrFails(filterLog[i])
    /\ clientCalls = <<ClientCall("delete", pruneObjs[2].id)>>
    /\ ~cluster[pruneObjs[2].id].exists
    /\ events[1] = SkippedEvent(pruneObjs[1].id, LocalNamespacesFilterName)
    /\ cluster[pruneObjs[1].id].exists


(***************************************************************************)
(* One event for every object: claim C36.                                  *)
(***************************************************************************)
\* the events of Prune among the events sent so far
IsPruneEvent(e) == e.group = "prune"
PruneEvents == SelectSeq(events, IsPruneEvent)

\* C36: Prune emits exactly one event, a Failed, a Skipped or a Success
\* event, for every object it has handled, in the order of the objects it
\* was given; no object is both a failed and a skipped delete, and every
\* abandoned object is a skipped delete
C36_OneEventPerObject ==
    /\ Len(PruneEvents) = pruneIdx
    /\ \A i \in 1..Len(PruneEvents) :
          /\ PruneEvents[i].id = pruneObjs[i].id
          /\ PruneEvents[i].type \in {"Failed", "Skipped", "Success"}
    /\ failedDeletes \cap skippedDeletes = {}
    /\ abandonedObjects \subseteq skippedDeletes

\* Prune has returned after it handled two objects: the removal of the
\* annotation of the first failed, the second was abandoned
C36_Witness ==
    /\ runPc = "done"
    /\ pruneErr = Nil
    /\ pruneIdx = 2
    /\ Len(events) = 2
    /\ events[1].type = "Failed"
    /\ events[1].id = pruneObjs[1].id
    /\ events[1].err = UpdateErr
    /\ events[2].type = "Skipped"
    /\ failedDeletes = {pruneObjs[1].id}
    /\ skippedDeletes = {pruneObjs[2].id}
    /\ abandonedObjects = {pruneObjs[2].id}


(***************************************************************************)
(* A deleted object leaves the inventory: claim C37.                       *)
(***************************************************************************)
\* the iteration of Prune deletes the object it handles from the store
DeletesPrunedObject ==
    /\ PruneStep
    /\ IssuesDelete
    /\ cluster[PrunedId].exists
    /\ ~cluster'[PrunedId].exists

\* C37: an object that Prune deletes successfully is neither a failed
\* delete nor a skipped delete nor abandoned, and gets the Success event;
\* unless it is also a successful, failed or skipped apply of the run, the
\* inventory that InvSetTask writes does not hold it
C37_DeletedLeavesInventory ==
    [][DeletesPrunedObject =>
        /\ PrunedId \notin failedDeletes'
        /\ PrunedId \notin skippedDeletes'
        /\ PrunedId \notin abandonedObjects'
        /\ NewEntries(events, events') = <<SuccessEvent(PrunedId)>>
        /\ PrunedId \notin (successfulApplies' \cup failedApplies'
                             \cup skippedApplies') =>
              PrunedId \notin InventoryAfterStep]_vars

\* Prune has deleted an object of the inventory, which the inventory that
\* InvSetTask writes no longer holds, while it keeps another object
C37_Witness ==
    /\ runPc = "prune"
    /\ pruneIdx > 0
    /\ clientCalls # <<>>
    /\ clientCalls[Len(clientCalls)]
         = ClientCall("delete", pruneObjs[pruneIdx].id)
    /\ events[Len(events)] = SuccessEvent(pruneObjs[pruneIdx].id)
    /\ ~cluster[pruneObjs[pruneIdx].id].exists
    /\ pruneObjs[pruneIdx].id \in ficInv
    /\ pruneObjs[pruneIdx].id \notin ComputedInventoryOfRun
    /\ ComputedInventoryOfRun # {}


(***************************************************************************)
(* The error event: claim C38.                                             *)
(***************************************************************************)
\* Print reads an error event
ReadsErrorEvent ==
    /\ printPc = "reading"
    /\ printIdx' = printIdx + 1
    /\ printEvents[printIdx + 1].type = "error"

\* C38: when Print reads an error event it returns the error of that
\* event at once: the counters stay as they were, no later event of the
\* channel is read or counted, and the aggregate error of the failed
\* events and timeouts is not produced
C38_ErrorEventReturns ==
    [][/\ ReadsErrorEvent =>
             /\ printPc' = "returned"
             /\ printResult' = PrintErr("error-event", 0, 0)
             /\ printStats' = printStats
       /\ printPc = "returned" =>
             /\ printPc' = "returned"
             /\ printIdx' = printIdx
             /\ printStats' = printStats
             /\ printResult' = printResult]_vars

\* Print has returned the error of an error event that came after a
\* failed apply event and before a reconcile timeout, which it has not read
C38_Witness ==
    /\ printPc = "returned"
    /\ printResult = PrintErr("error-event", 0, 0)
    /\ Len(printEvents) = 3
    /\ printIdx = 2
    /\ printEvents[1].type = "apply"
    /\ printEvents[1].failed
    /\ printEvents[2].type = "error"
    /\ printEvents[3] = [type |-> "wait", failed |-> FALSE, op |-> "timeout"]
    /\ printStats.applyFailed = 1
    /\ printStats.timeout = 0

(***************************************************************************)
(* The count of the apply events: claim C39.                               *)
(***************************************************************************)
IsApplyEvent(e) == e.type = "apply"

\* the number of apply events that Print has read
ApplyEventsRead ==
    Len(SelectSeq(SubSeq(printEvents, 1, printIdx), IsApplyEvent))

\* C39 (as stated): after any sequence of events ApplyStats.Sum() is the
\* number of apply events that Print has processed, those that carry an
\* error included
C39_AsStated == ApplyStatsSum(printStats) = ApplyEventsRead


(***************************************************************************)
(* The remote requests of one Update: claim C40.                           *)
(***************************************************************************)
\* the step is a call of Update on a record, by the one client or by one
\* of the two clients
AnyUpdateStep ==
    /\ lastOp' \in {"Update", "UpdateBy"}
    /\ nOps' = nOps + 1

====
